---- MODULE Spec2Model ----
(***************************************************************************)
(* SEP lifecycle automation (tools/sep-automation): the rules table, the   *)
(* staleness analyzer, the transition and ping handlers and the per-item   *)
(* processor, over one remote issue whose labels, comments and open/closed *)
(* flag are the only durable state; and the entry point, which sweeps the  *)
(* issues the detector finds, merges what each pass returns, dispatches    *)
(* the summary to the hooks and sets the exit code.                        *)
(*                                                                         *)
(* Time is counted in ticks, TicksPerDay ticks to a day, so that           *)
(* daysBetween floors as Math.floor does over milliseconds.                *)
(***************************************************************************)
EXTENDS Integers, Sequences, FiniteSets, TLC

VARIABLES
    labels,         \* remote: the issue's label list, in API order
    comments,       \* remote: the issue's comments, in API (creation) order
    closed,         \* remote: the issue is closed
    updatedAt,      \* remote: updated_at, in ticks
    events,         \* remote: the issue's timeline events, in API order
    assignees,      \* remote: assignee logins, in API order
    teamApi,        \* remote: what getTeamMembers answers for each sponsor team
    now,            \* the clock, in ticks
    dryRun,         \* config.dryRun
    maintainerSet,  \* MaintainerResolver.maintainerSet: <<>> (null) or <<set>>
    loadAttempted,  \* MaintainerResolver.loadAttempted
    item,           \* the SEPItem snapshot the current operation works on
    analysis,       \* the StaleAnalysis of the current pass
    op,             \* the arguments of the handler call in progress
    pc,             \* position of the single thread of control
    ret,            \* where the handler in progress returns to
    result,         \* the ActionResult the last handler call returned
    results,        \* process(): the results collected in this pass
    idx,            \* checkMaintainerAccountability: index of the assignee at hand
    calls,          \* repository-client mutation calls of this pass, in order
    passLog,        \* the steps process() has taken in this pass, in order
    runs,           \* passes and direct handler calls started so far
    rulesIn,        \* a pure function called directly: the arguments of the call
    rulesOut,       \* a pure function called directly: what the call returned
    summaryData,    \* process(): the summaryData object of the current pass
    floating,       \* updateSummaryFromStaleness calls started and not awaited
    cur,            \* number of the issue that labels, comments, ... describe
    parked,         \* remote: the other issues of the repository, by number
    issueArg,       \* parseArgs().issueNumber: <<>> (undefined) or <<n>>
    searchIn,       \* remote: what the label search and the title search answer
    seps,           \* main: the SEP list, <<>> until it is fetched
    mainPc,         \* main: position of the entry point
    pos,            \* main: index in seps of the item at hand
    allResults,     \* main: allResults
    summary,        \* main: the merged summary rows
    hooks,          \* HookRegistry.hooks: the registered hooks, in order
    hookRuns,       \* dispatch: state of each hook's onEvent call
    dispatched,     \* summary events handed to HookRegistry.dispatch so far
    exitCode,       \* <<>> while the process runs, <<code>> once it has exited
    processed,      \* numbers of the items process() was called on, in order
    threw,          \* numbers of the items whose process() call rejected
    client          \* GitHubClient: its config, its auth state, the calls it made

vars == <<labels, comments, closed, updatedAt, events, assignees, teamApi, now, dryRun,
          maintainerSet, loadAttempted, item, analysis, op, pc, ret, result,
          results, idx, calls, passLog, runs, rulesIn, rulesOut,
          summaryData, floating, cur, parked, issueArg, searchIn, seps, mainPc,
          pos, allResults, summary, hooks, hookRuns, dispatched, exitCode,
          processed, threw,
          client>>

remoteVars == <<labels, comments, closed, updatedAt>>
envVars == <<events, assignees, teamApi, dryRun, client>>
rulesVars == <<rulesIn, rulesOut>>
floatVars == <<summaryData, floating>>
mainVars == <<cur, parked, issueArg, searchIn, seps, mainPc, pos, allResults,
              summary, hooks, hookRuns, dispatched, exitCode, processed, threw>>

----------------------------------------------------------------------------
(* Bounds of the model *)

TicksPerDay == 2
MaxRuns == 2
MaxCalls == 2
MaxAdvances == 1
MaxItems == 3
MaxHits == 2
MaxLabels == 3
MaxRows == 1
MaxCallers == 3

(* Program constants *)

PROPOSAL_PING_DAYS == 90
PROPOSAL_DORMANT_DAYS == 180
DRAFT_PING_DAYS == 90
ACCEPTED_PING_DAYS == 30
MAINTAINER_INACTIVITY_DAYS == 14
PING_COOLDOWN_DAYS == 14

----------------------------------------------------------------------------
(* rules.ts *)

NoState == "none"

STATE_LABELS == <<"proposal", "draft", "in-review", "accepted", "final", "dormant">>

SEPStates == {STATE_LABELS[i] : i \in 1..Len(STATE_LABELS)}

\* a table in which a review can send a SEP back to proposal
STATE_TRANSITIONS_ReviewToProposal ==
    [s \in SEPStates |->
        CASE s = "proposal"  -> <<"draft", "dormant">>
          [] s = "draft"     -> <<"in-review", "dormant">>
          [] s = "in-review" -> <<"accepted", "proposal", "dormant">>
          [] s = "accepted"  -> <<"final", "dormant">>
          [] s = "final"     -> <<>>
          [] s = "dormant"   -> <<"proposal", "draft">>]

STATE_TRANSITIONS ==
    [s \in SEPStates |->
        CASE s = "proposal"  -> <<"draft", "dormant">>
          [] s = "draft"     -> <<"in-review", "dormant">>
          [] s = "in-review" -> <<"accepted", "draft", "dormant">>
          [] s = "accepted"  -> <<"final", "dormant">>
          [] s = "final"     -> <<>>
          [] s = "dormant"   -> <<"proposal", "draft">>]

\* Array.prototype.includes: a scan of the array
RECURSIVE Includes(_, _)
Includes(arr, x) ==
    IF arr = <<>> THEN FALSE
    ELSE IF Head(arr) = x THEN TRUE
    ELSE Includes(Tail(arr), x)

isStateLabel(label) == Includes(STATE_LABELS, label)

\* the state label met last wins
RECURSIVE extractStateLast(_)
extractStateLast(ls) ==
    IF ls = <<>> THEN NoState
    ELSE IF isStateLabel(ls[Len(ls)]) THEN ls[Len(ls)]
    ELSE extractStateLast(SubSeq(ls, 1, Len(ls) - 1))

RECURSIVE extractState(_)
extractState(ls) ==
    IF ls = <<>> THEN NoState
    ELSE IF isStateLabel(Head(ls)) THEN Head(ls)
    ELSE extractState(Tail(ls))

isValidTransitionNoInitial(fromState, toState) ==
    /\ fromState \in SEPStates
    /\ Includes(STATE_TRANSITIONS[fromState], toState)

isValidTransition(fromState, toState) ==
    IF fromState = NoState
    THEN TRUE
    ELSE Includes(STATE_TRANSITIONS[fromState], toState)

\* TransitionHandler.validateTransition
\* the message `Invalid transition: ${from} -> ${to}. Valid targets: ${join}`,
\* kept as its parts: the text, the edge, then the targets in table order
InvalidTransition(fromState, toState, validTargets) ==
    <<"Invalid transition", fromState, toState>> \o validTargets

validateTransitionNoTargets(fromState, toState) ==
    [valid |-> isValidTransition(fromState, toState),
     reason |-> <<"Invalid transition", fromState, toState>>,
     edge |-> <<fromState, toState>>,
     validTargets |-> <<>>]

validateTransition(fromState, toState) ==
    IF isValidTransition(fromState, toState)
    THEN [valid |-> TRUE,
          reason |-> IF fromState # NoState THEN <<"Valid transition">>
                     ELSE <<"Initial state assignment">>,
          edge |-> <<fromState, toState>>,
          validTargets |-> <<>>]
    ELSE [valid |-> FALSE,
          reason |-> InvalidTransition(fromState, toState,
                                       IF fromState # NoState
                                       THEN STATE_TRANSITIONS[fromState] ELSE <<>>),
          edge |-> <<fromState, toState>>,
          validTargets |-> IF fromState # NoState
                           THEN STATE_TRANSITIONS[fromState] ELSE <<>>]

----------------------------------------------------------------------------
(* utils/dates.ts *)

daysBetween(date1, date2) == (date2 - date1) \div TicksPerDay

----------------------------------------------------------------------------
(* types.ts, actions/comment.ts *)

NoUser == "nobody"
Author == "author"
Bot == "sep-bot"
NoTarget == "null"

PingKinds == {"ping-author", "accepted-reminder", "ping-sponsor",
              "needs-sponsor", "ping-maintainer"}

\* Every template of comment.ts starts with BOT_COMMENT_MARKER
BotComment(kind, mention, at) ==
    [author |-> Bot, marker |-> TRUE, kind |-> kind, mention |-> mention, at |-> at]

HumanComment(user, at) ==
    [author |-> user, marker |-> FALSE, kind |-> "human", mention |-> NoUser, at |-> at]

----------------------------------------------------------------------------
(* sep/detector.ts *)

toSEPItem(ls, as, upd, isClosed) ==
    [state |-> extractState(ls), labels |-> ls, author |-> Author,
     assignees |-> as, updatedAt |-> upd, isClosed |-> isClosed]

----------------------------------------------------------------------------
(* sep/analyzer.ts *)

StaleAnalysis(days, ping, dormant, close, target, reason) ==
    [daysSinceActivity |-> days, shouldPing |-> ping, shouldMarkDormant |-> dormant,
     shouldClose |-> close, pingTarget |-> target, reason |-> reason]

NoAction(days, reason) == StaleAnalysis(days, FALSE, FALSE, FALSE, NoTarget, reason)

\* <<>> is null, <<t>> the date found
RECURSIVE getLastBotPingDate(_)
getLastBotPingDate(cs) ==
    IF cs = <<>> THEN <<>>
    ELSE IF cs[Len(cs)].marker THEN <<cs[Len(cs)].at>>
    ELSE getLastBotPingDate(SubSeq(cs, 1, Len(cs) - 1))

analyzeProposalOffByOne(days) ==
    IF days > PROPOSAL_DORMANT_DAYS
    THEN StaleAnalysis(days, FALSE, TRUE, TRUE, NoTarget, "proposal-dormant")
    ELSE IF days > PROPOSAL_PING_DAYS
    THEN StaleAnalysis(days, TRUE, FALSE, FALSE, "author", "proposal-ping")
    ELSE NoAction(days, "null")

analyzeProposal(days) ==
    IF days >= PROPOSAL_DORMANT_DAYS
    THEN StaleAnalysis(days, FALSE, TRUE, TRUE, NoTarget, "proposal-dormant")
    ELSE IF days >= PROPOSAL_PING_DAYS
    THEN StaleAnalysis(days, TRUE, FALSE, FALSE, "author", "proposal-ping")
    ELSE NoAction(days, "null")

\* a stale draft is marked dormant and closed
analyzeDraftMarksDormant(days) ==
    IF days >= DRAFT_PING_DAYS
    THEN StaleAnalysis(days, FALSE, TRUE, TRUE, NoTarget, "draft-dormant")
    ELSE NoAction(days, "null")

analyzeDraft(days) ==
    IF days >= DRAFT_PING_DAYS
    THEN StaleAnalysis(days, TRUE, FALSE, FALSE, "sponsor", "draft-ping")
    ELSE NoAction(days, "null")

analyzeAccepted(days) ==
    IF days >= ACCEPTED_PING_DAYS
    THEN StaleAnalysis(days, TRUE, FALSE, FALSE, "author", "accepted-ping")
    ELSE NoAction(days, "null")

\* every state without a rule of its own is treated as a draft
analyzeByStateDefaultDraft(it, days) ==
    CASE it.state = "proposal" -> analyzeProposal(days)
      [] it.state = "accepted" -> analyzeAccepted(days)
      [] OTHER                 -> analyzeDraft(days)

analyzeByState(it, days) ==
    CASE it.state = "proposal" -> analyzeProposal(days)
      [] it.state = "draft"    -> analyzeDraft(days)
      [] it.state = "accepted" -> analyzeAccepted(days)
      [] OTHER                 -> NoAction(days, "null")

analyzeNoCooldown(it, cs, t) == analyzeByState(it, daysBetween(it.updatedAt, t))

analyze(it, cs, t) ==
    LET daysSinceActivity == daysBetween(it.updatedAt, t)
        lastPingDate == getLastBotPingDate(cs)
    IN  IF /\ lastPingDate # <<>>
           /\ daysBetween(lastPingDate[1], t) < PING_COOLDOWN_DAYS
        THEN NoAction(daysSinceActivity, "cooldown")
        ELSE analyzeByState(it, daysSinceActivity)

\* keeps the first entry by the user that it meets
RECURSIVE lastActivityOfFirst(_, _, _)
lastActivityOfFirst(xs, user, best) ==
    IF xs = <<>> THEN best
    ELSE lastActivityOfFirst(Tail(xs), user,
            IF Head(xs).author = user /\ best = <<>>
            THEN <<Head(xs).at>> ELSE best)

\* checkMaintainerActivity's two loops: the latest entry of xs by the user,
\* starting from best (<<>> is null); events carry .author for actor.login
RECURSIVE lastActivityOf(_, _, _)
lastActivityOf(xs, user, best) ==
    IF xs = <<>> THEN best
    ELSE lastActivityOf(Tail(xs), user,
            IF Head(xs).author = user /\ (best = <<>> \/ Head(xs).at > best[1])
            THEN <<Head(xs).at>> ELSE best)

checkMaintainerActivity(it, evs, cs, user, t) ==
    LET found == lastActivityOf(cs, user, lastActivityOf(evs, user, <<>>))
        lastActivity == IF found = <<>> THEN it.updatedAt ELSE found[1]
        days == daysBetween(lastActivity, t)
    IN  [daysSinceActivity |-> days,
         shouldPing |-> days >= MAINTAINER_INACTIVITY_DAYS]

----------------------------------------------------------------------------
(* maintainers/resolver.ts *)

Users == {"alice", "bob"}

SPONSOR_TEAMS == <<"core-maintainers", "moderators">>

FALLBACK_SPONSORS == {"bob"}

\* the first team that fails ends the load
RECURSIVE teamUnionFailFast(_, _)
teamUnionFailFast(teams, api) ==
    IF teams = <<>> THEN {}
    ELSE IF ~api[Head(teams)].ok THEN {}
    ELSE api[Head(teams)].members \cup teamUnionFailFast(Tail(teams), api)

\* the union of the member lists of the teams that answered
RECURSIVE teamUnion(_, _)
teamUnion(teams, api) ==
    IF teams = <<>> THEN {}
    ELSE (IF api[Head(teams)].ok THEN api[Head(teams)].members ELSE {})
         \cup teamUnion(Tail(teams), api)

\* ensureSponsorsLoaded: the set returned and the resolver's fields afterwards
ensureSponsorsLoaded(mset, attempted, api) ==
    IF mset # <<>>
    THEN [sponsors |-> mset[1], maintainerSet |-> mset, loadAttempted |-> attempted]
    ELSE IF attempted
    THEN [sponsors |-> FALLBACK_SPONSORS, maintainerSet |-> mset,
          loadAttempted |-> attempted]
    ELSE LET allMembers == teamUnion(SPONSOR_TEAMS, api)
             loaded == IF allMembers # {} THEN allMembers ELSE FALLBACK_SPONSORS
         IN  [sponsors |-> loaded, maintainerSet |-> <<loaded>>,
              loadAttempted |-> TRUE]

canSponsor(sponsors, username) == username \in sponsors

\* the last eligible assignee instead of the first
RECURSIVE getSponsorLast(_, _)
getSponsorLast(sponsors, as) ==
    IF as = <<>> THEN NoUser
    ELSE IF canSponsor(sponsors, as[Len(as)]) THEN as[Len(as)]
    ELSE getSponsorLast(sponsors, SubSeq(as, 1, Len(as) - 1))

RECURSIVE getSponsor(_, _)
getSponsor(sponsors, as) ==
    IF as = <<>> THEN NoUser
    ELSE IF canSponsor(sponsors, Head(as)) THEN Head(as)
    ELSE getSponsor(sponsors, Tail(as))

\* the resolver as the current state has it
Loaded == ensureSponsorsLoaded(maintainerSet, loadAttempted, teamApi)

----------------------------------------------------------------------------
(* actions/transition.ts, actions/ping.ts: each handler runs its synchronous *)
(* prefix and either returns at once or enters its try block, a list of     *)
(* awaited repository-client calls.                                         *)

Call(api, arg, mention) == [api |-> api, arg |-> arg, mention |-> mention]

createAction(type, it, targetUser, toState) ==
    [type |-> type, targetUser |-> targetUser,
     fromState |-> IF type = "transition" THEN it.state ELSE NoState,
     toState |-> toState]

\* error undefined
NoError == <<>>

ActionResult(action, success, error, commentUrl) ==
    [action |-> action, success |-> success, error |-> error,
     commentUrl |-> commentUrl]

NoResult == ActionResult(createAction("none", [state |-> NoState], NoUser, NoState),
                         TRUE, NoError, 0)

Return(action, success, error) ==
    [done |-> TRUE, action |-> action, todo |-> <<>>,
     result |-> ActionResult(action, success, error, 0)]

Try(action, todo) ==
    [done |-> FALSE, action |-> action, todo |-> todo, result |-> NoResult]

NoOp == Return(createAction("none", [state |-> NoState], NoUser, NoState), TRUE, NoError)

executeTransitionCallsAddFirst(fromState, toState, sponsor) ==
    <<Call("addLabels", toState, NoUser)>>
    \o (IF fromState # NoState THEN <<Call("removeLabel", fromState, NoUser)>> ELSE <<>>)
    \o <<Call("addComment", "transition",
              IF toState = "draft" THEN sponsor ELSE NoUser)>>

\* executeTransition's try block
executeTransitionCalls(fromState, toState, sponsor) ==
    (IF fromState # NoState THEN <<Call("removeLabel", fromState, NoUser)>> ELSE <<>>)
    \o <<Call("addLabels", toState, NoUser),
         Call("addComment", "transition",
              IF toState = "draft" THEN sponsor ELSE NoUser)>>

executeTransitionNoDryRun(it, toState, sponsor, dr) ==
    LET action == createAction("transition", it, sponsor, toState)
        validation == validateTransition(it.state, toState)
    IN  IF it.state # NoState /\ ~validation.valid
        THEN Return(action, FALSE, validation.reason)
        ELSE Try(action, executeTransitionCalls(it.state, toState, sponsor))

executeTransition(it, toState, sponsor, dr) ==
    LET action == createAction("transition", it, sponsor, toState)
        validation == validateTransition(it.state, toState)
    IN  IF it.state # NoState /\ ~validation.valid
        THEN Return(action, FALSE, validation.reason)
        ELSE IF dr
        THEN Return(action, TRUE, NoError)
        ELSE Try(action, executeTransitionCalls(it.state, toState, sponsor))

pingMaintainerDirectly(it, maintainer, days, dr) ==
    LET action == createAction("ping-maintainer", it, maintainer, NoState)
    IN  IF dr
        THEN Return(action, TRUE, NoError)
        ELSE Try(action, <<Call("addComment", "ping-maintainer", maintainer)>>)

pingAuthor(it, days, dr) ==
    LET action == createAction("ping-author", it, it.author, NoState)
    IN  IF dr
        THEN Return(action, TRUE, NoError)
        ELSE Try(action,
                 <<Call("addComment",
                        IF it.state = "accepted" THEN "accepted-reminder"
                        ELSE "ping-author",
                        it.author)>>)

postNeedsSponsor(it, days, dr) ==
    LET action == createAction("needs-sponsor", it, NoUser, NoState)
    IN  IF dr
        THEN Return(action, TRUE, NoError)
        ELSE Try(action, <<Call("addComment", "needs-sponsor", NoUser)>>)

pingSponsorAlways(it, days, dr, sponsors) ==
    LET sponsor == getSponsor(sponsors, it.assignees)
        action == createAction("ping-sponsor", it, sponsor, NoState)
    IN  IF dr
        THEN Return(action, TRUE, NoError)
        ELSE Try(action, <<Call("addComment", "ping-sponsor", sponsor)>>)

pingSponsor(it, days, dr, sponsors) ==
    LET sponsor == getSponsor(sponsors, it.assignees)
        action == createAction("ping-sponsor", it, sponsor, NoState)
    IN  IF sponsor = NoUser
        THEN postNeedsSponsor(it, days, dr)
        ELSE IF dr
        THEN Return(action, TRUE, NoError)
        ELSE Try(action, <<Call("addComment", "ping-sponsor", sponsor)>>)

pingMaintainer(it, days, dr, sponsors) ==
    LET sponsor == getSponsor(sponsors, it.assignees)
    IN  IF sponsor = NoUser
        THEN Return(createAction("ping-maintainer", it, NoUser, NoState),
                    FALSE, <<"No maintainer assigned">>)
        ELSE pingMaintainerDirectly(it, sponsor, days, dr)

\* markDormant's try block
markDormantCallsAddFirst(it, shouldClose) ==
    <<Call("addLabels", "dormant", NoUser)>>
    \o (IF it.state # NoState /\ it.state # "dormant"
        THEN <<Call("removeLabel", it.state, NoUser)>> ELSE <<>>)
    \o <<Call("addComment", "dormant", NoUser)>>
    \o (IF shouldClose THEN <<Call("closeIssue", "", NoUser)>> ELSE <<>>)

markDormantCallsCloseFirst(it, shouldClose) ==
    (IF shouldClose THEN <<Call("closeIssue", "", NoUser)>> ELSE <<>>)
    \o (IF it.state # NoState /\ it.state # "dormant"
        THEN <<Call("removeLabel", it.state, NoUser)>> ELSE <<>>)
    \o <<Call("addLabels", "dormant", NoUser),
         Call("addComment", "dormant", NoUser)>>

markDormantCalls(it, shouldClose) ==
    (IF it.state # NoState /\ it.state # "dormant"
     THEN <<Call("removeLabel", it.state, NoUser)>> ELSE <<>>)
    \o <<Call("addLabels", "dormant", NoUser),
         Call("addComment", "dormant", NoUser)>>
    \o (IF shouldClose THEN <<Call("closeIssue", "", NoUser)>> ELSE <<>>)

markDormantUnvalidated(it, days, shouldClose, dr) ==
    LET action == createAction("mark-dormant", it, NoUser, NoState)
    IN  IF dr
        THEN Return(action, TRUE, NoError)
        ELSE Try(action, markDormantCalls(it, shouldClose))

markDormant(it, days, shouldClose, dr) ==
    LET action == createAction("mark-dormant", it, NoUser, NoState)
    IN  IF /\ it.state # NoState
           /\ ~Includes(STATE_TRANSITIONS[it.state], "dormant")
        THEN Return(action, FALSE,
                    InvalidTransition(it.state, "dormant", STATE_TRANSITIONS[it.state]))
        ELSE IF dr
        THEN Return(action, TRUE, NoError)
        ELSE Try(action, markDormantCalls(it, shouldClose))

\* executePing's dispatch; sponsors is what ensureSponsorsLoaded returns
executePing(it, an, dr, sponsors) ==
    IF an.shouldMarkDormant
    THEN markDormant(it, an.daysSinceActivity, an.shouldClose, dr)
    ELSE CASE an.pingTarget = NoTarget ->
                Return(createAction("ping-author", it, NoUser, NoState), TRUE, NoError)
           [] an.pingTarget = "author" ->
                pingAuthor(it, an.daysSinceActivity, dr)
           [] an.pingTarget = "sponsor" ->
                pingSponsor(it, an.daysSinceActivity, dr, sponsors)
           [] an.pingTarget = "maintainer" ->
                pingMaintainer(it, an.daysSinceActivity, dr, sponsors)
           [] OTHER ->
                Return(createAction("ping-author", it, NoUser, NoState),
                       FALSE, <<"Unknown ping target">>)

\* executePing awaits getSponsor only on the sponsor and maintainer branches
executePingLoads(an) ==
    ~an.shouldMarkDormant /\ an.pingTarget \in {"sponsor", "maintainer"}

----------------------------------------------------------------------------
(* Initial states: one issue with a label list, an assignee list, a history *)
(* of comments and events, and the sponsor teams as the remote has them.    *)

Days(n) == n * TicksPerDay

LabelLists ==
    {<<"SEP">>} \cup {<<"SEP", s>> : s \in SEPStates}
    \cup {<<"SEP", "proposal", "final">>, <<"final", "SEP", "proposal">>}

AssigneeLists == {<<>>, <<"alice">>, <<"alice", "bob">>, <<"bob", "alice">>}

\* ages of updated_at worth telling apart, by state
AgesFor(state) ==
    CASE state = "proposal" ->
            {Days(PROPOSAL_PING_DAYS) - 1, Days(PROPOSAL_PING_DAYS),
             Days(PROPOSAL_DORMANT_DAYS) - 1, Days(PROPOSAL_DORMANT_DAYS)}
      [] state = "draft" ->
            {Days(MAINTAINER_INACTIVITY_DAYS) - 1,
             Days(DRAFT_PING_DAYS) - 1, Days(DRAFT_PING_DAYS)}
      [] state = "accepted" ->
            {Days(ACCEPTED_PING_DAYS) - 1, Days(ACCEPTED_PING_DAYS)}
      [] state = "in-review" ->
            {Days(MAINTAINER_INACTIVITY_DAYS) - 1, Days(MAINTAINER_INACTIVITY_DAYS)}
      [] OTHER -> {Days(PROPOSAL_DORMANT_DAYS)}

Event(user, at) == [author |-> user, at |-> at]

Histories ==
    { [comments |-> <<>>, events |-> <<>>],
      [comments |-> <<BotComment("ping-author", Author, 1 - Days(PING_COOLDOWN_DAYS))>>,
       events |-> <<>>],
      [comments |-> <<BotComment("ping-author", Author, -Days(PING_COOLDOWN_DAYS))>>,
       events |-> <<>>],
      [comments |-> <<BotComment("ping-author", Author, -Days(2 * PING_COOLDOWN_DAYS)),
                      BotComment("ping-author", Author, 1 - Days(PING_COOLDOWN_DAYS)),
                      HumanComment("alice", -1)>>,
       events |-> <<>>],
      [comments |-> <<>>,
       events |-> <<Event("alice", -Days(MAINTAINER_INACTIVITY_DAYS))>>],
      [comments |-> <<HumanComment("alice", 1 - Days(MAINTAINER_INACTIVITY_DAYS))>>,
       events |-> <<Event("alice", -Days(2 * MAINTAINER_INACTIVITY_DAYS))>>] }

Answer(members) == [ok |-> TRUE, members |-> members]
Failure == [ok |-> FALSE, members |-> {}]

TeamApis ==
    { [t \in {"core-maintainers", "moderators"} |-> Failure],
      [t \in {"core-maintainers", "moderators"} |->
          IF t = "moderators" THEN Answer({"alice"}) ELSE Failure],
      [t \in {"core-maintainers", "moderators"} |->
          IF t = "moderators" THEN Answer({"alice"}) ELSE Answer({"bob"})] }

NoAnalysis == NoAction(0, "none")
NoCall == [action |-> NoResult.action, todo |-> <<>>, url |-> 0]

----------------------------------------------------------------------------
(* config.ts: loadConfig's authentication check.  github/client.ts: the    *)
(* constructor and ensureInitialized, which every client operation awaits  *)
(* first.                                                                   *)

MaxOps == 3

\* an environment variable that is not set (null after `?? null`)
Unset == "unset"

\* JavaScript truthiness of a string or null
truthy(v) == v # Unset /\ v # ""

AuthConfig(githubToken, appId, appPrivateKey) ==
    [githubToken |-> githubToken, appId |-> appId, appPrivateKey |-> appPrivateKey]

AuthConfigs ==
    {AuthConfig(t, a, k) : t \in {Unset, "", "token"}, a \in {Unset, "", "12345"},
                           k \in {Unset, "", "key"}}

\* loadConfig throws 'Authentication required'
loadConfigThrows(cfg) ==
    ~truthy(cfg.githubToken) /\ (~truthy(cfg.appId) \/ ~truthy(cfg.appPrivateKey))

\* the client before `new GitHubClient(config)`; startup is what loadConfig
\* did with the same settings
Unbuilt(cfg) ==
    [config |-> cfg, startup |-> "none", built |-> FALSE, initialized |-> FALSE,
     ops |-> 0, remote |-> 0, installations |-> 0, found |-> 0, authErrors |-> 0]

newClientNeverReady(cfg) == [Unbuilt(cfg) EXCEPT !.built = TRUE]

\* the constructor: ready at once with a token
newClient(cfg) ==
    [Unbuilt(cfg) EXCEPT !.built = TRUE, !.initialized = truthy(cfg.githubToken)]

\* the client of a run that was given a token
TokenClient == [newClient(AuthConfig("token", Unset, Unset)) EXCEPT !.startup = "loaded"]

InitIdle ==
    /\ now = 0
    /\ maintainerSet = <<>>
    /\ loadAttempted = FALSE
    /\ item = toSEPItem(labels, assignees, updatedAt, closed)
    /\ analysis = NoAnalysis
    /\ op = NoCall
    /\ pc = "idle"
    /\ ret = "idle"
    /\ result = NoResult
    /\ results = <<>>
    /\ idx = 1
    /\ calls = <<>>
    /\ passLog = <<>>
    /\ runs = 0
    /\ rulesOut = <<>>
    /\ summaryData = <<>>
    /\ floating = {}

InitControl ==
    /\ InitIdle
    /\ client = TokenClient

\* the entry point is not running: the issue is the only one, number 1
NoMain ==
    /\ cur = 1
    /\ parked = <<>>
    /\ issueArg = <<1>>
    /\ searchIn = <<>>
    /\ seps = <<>>
    /\ mainPc = "none"
    /\ pos = 0
    /\ allResults = <<>>
    /\ summary = <<>>
    /\ hooks = <<>>
    /\ hookRuns = <<>>
    /\ dispatched = 0
    /\ exitCode = <<>>
    /\ processed = <<>>
    /\ threw = {}

Init ==
    /\ labels \in LabelLists
    /\ updatedAt \in {-a : a \in AgesFor(extractState(labels))}
    /\ \E h \in Histories : comments = h.comments /\ events = h.events
    /\ closed \in BOOLEAN
    /\ assignees \in AssigneeLists
    /\ teamApi \in TeamApis
    /\ dryRun \in BOOLEAN
    /\ rulesIn = <<NoState, NoState>>
    /\ InitControl
    /\ NoMain

----------------------------------------------------------------------------
(* github/client.ts: the awaited calls of a handler's try block, one step   *)
(* each; any of them may throw, and the handler's catch returns the failure *)

removeLabelEffect(ls, label) == SelectSeq(ls, LAMBDA l : l # label)

addLabelsEffect(ls, label) == IF Includes(ls, label) THEN ls ELSE Append(ls, label)

Logged(call, ok) == [api |-> call.api, arg |-> call.arg, ok |-> ok]

\* the call at the head of the try block returned normally
Proceed(url) ==
    LET rest == Tail(op.todo)
    IN  /\ calls' = Append(calls, Logged(Head(op.todo), TRUE))
        /\ IF rest = <<>>
           THEN /\ result' = ActionResult(op.action, TRUE, NoError, url)
                /\ pc' = ret
                /\ op' = NoCall
           ELSE /\ op' = [op EXCEPT !.todo = rest, !.url = url]
                /\ UNCHANGED <<result, pc>>

\* the call at the head of the try block threw: the catch block
Catch ==
    /\ calls' = Append(calls, Logged(Head(op.todo), FALSE))
    /\ result' = ActionResult(op.action, FALSE, <<"api-error">>, 0)
    /\ pc' = ret
    /\ op' = NoCall

AtCall(api) == pc = "api" /\ op.todo # <<>> /\ Head(op.todo).api = api

handlerFrame == <<events, assignees, teamApi, now, dryRun, client, maintainerSet,
                  loadAttempted, item, analysis, ret, results, idx, passLog,
                  runs, rulesIn, rulesOut, floatVars, mainVars>>

\* utils/errors.ts: the thrown value carries this HTTP status
isHttpError(error, status) == error.status = status

\* what the remote answers to the DELETE of a label of the issue: 404 when
\* the issue does not carry the label, 500 for a failure of the service
removeLabelResponse(ls, label, fault) ==
    [status |-> IF fault THEN 500 ELSE IF Includes(ls, label) THEN 200 ELSE 404]

removeLabelRethrowsAll(response) == response.status # 200

\* GitHubClient.removeLabel: the catch swallows a 404 and rethrows the rest
removeLabelRethrows(response) ==
    response.status # 200 /\ ~isHttpError(response, 404)

RemoveLabel ==
    /\ AtCall("removeLabel")
    /\ \E fault \in BOOLEAN :
          LET response == removeLabelResponse(labels, Head(op.todo).arg, fault)
          IN  IF removeLabelRethrows(response)
              THEN /\ Catch
                   /\ UNCHANGED remoteVars
              ELSE /\ labels' = removeLabelEffect(labels, Head(op.todo).arg)
                   /\ updatedAt' = IF labels' # labels THEN now ELSE updatedAt
                   /\ Proceed(op.url)
                   /\ UNCHANGED <<comments, closed>>
    /\ UNCHANGED handlerFrame

AddLabels ==
    /\ AtCall("addLabels")
    /\ \/ /\ labels' = addLabelsEffect(labels, Head(op.todo).arg)
          /\ updatedAt' = IF labels' # labels THEN now ELSE updatedAt
          /\ Proceed(op.url)
          /\ UNCHANGED <<comments, closed>>
       \/ /\ Catch
          /\ UNCHANGED remoteVars
    /\ UNCHANGED handlerFrame

AddComment ==
    /\ AtCall("addComment")
    /\ \/ /\ comments' = Append(comments,
                BotComment(Head(op.todo).arg, Head(op.todo).mention, now))
          /\ updatedAt' = now
          /\ Proceed(Len(comments'))
          /\ UNCHANGED <<labels, closed>>
       \/ /\ Catch
          /\ UNCHANGED remoteVars
    /\ UNCHANGED handlerFrame

CloseIssue ==
    /\ AtCall("closeIssue")
    /\ \/ /\ closed' = TRUE
          /\ updatedAt' = IF closed THEN updatedAt ELSE now
          /\ Proceed(op.url)
          /\ UNCHANGED <<labels, comments>>
       \/ /\ Catch
          /\ UNCHANGED remoteVars
    /\ UNCHANGED handlerFrame

\* a handler is entered: it returns at once or starts its try block
Begin(out, returnTo) ==
    /\ ret' = returnTo
    /\ IF out.done
       THEN /\ result' = out.result
            /\ pc' = returnTo
            /\ op' = NoCall
       ELSE /\ result' = NoResult
            /\ pc' = "api"
            /\ op' = [action |-> out.action, todo |-> out.todo, url |-> 0]

\* a step that awaits canSponsor or getSponsor leaves the resolver loaded
LoadSponsors ==
    /\ maintainerSet' = Loaded.maintainerSet
    /\ loadAttempted' = Loaded.loadAttempted

----------------------------------------------------------------------------
(* processor.ts: SEPProcessor.process, one pass over the issue *)

Snapshot == toSEPItem(labels, assignees, updatedAt, closed)

\* the entry point fetches the issue and calls process(sep)
StartPass ==
    /\ pc = "idle"
    /\ floating = {}
    /\ runs < MaxRuns
    /\ runs' = runs + 1
    /\ item' = Snapshot
    /\ analysis' = NoAnalysis
    /\ result' = NoResult
    /\ results' = <<>>
    /\ idx' = 1
    /\ calls' = <<>>
    /\ passLog' = <<>>
    /\ pc' = "process"
    /\ summaryData' = <<>>
    /\ UNCHANGED <<remoteVars, envVars, now, maintainerSet, loadAttempted, op, ret,
                   rulesIn, rulesOut, floating, mainVars>>

\* the daily schedule: time passes between two passes
Advance ==
    /\ pc = "idle"
    /\ floating = {}
    /\ 0 < runs /\ runs < MaxRuns
    /\ \E d \in {Days(PING_COOLDOWN_DAYS) - 1, Days(PING_COOLDOWN_DAYS)} :
          /\ now + d <= MaxAdvances * Days(PING_COOLDOWN_DAYS)
          /\ now' = now + d
    /\ UNCHANGED <<remoteVars, envVars, maintainerSet, loadAttempted, item, analysis,
                   op, pc, ret, result, results, idx, calls, passLog, runs,
                   rulesIn, rulesOut, floatVars, mainVars>>

passFrame == <<remoteVars, envVars, now, item, calls, runs, rulesIn, rulesOut,
               mainVars>>

skipsNothing(sep) == FALSE

\* process(): a closed SEP is skipped
skipsClosed(sep) == sep.isClosed

noAutoTransitionEver(it) == TRUE

\* checkAutoTransition returns null without asking the resolver
noAutoTransition(it) == it.state # "proposal" \/ Len(it.assignees) = 0

accountableInAnyState(it) == TRUE

accountable(it) == it.state = "draft" \/ it.state = "in-review"

\* a row of summaryData: kind is the array it is pushed to
Row(kind, number, target, user, days, flag) ==
    [kind |-> kind, number |-> number, target |-> target, user |-> user,
     days |-> days, flag |-> flag]

\* the resolver has not loaded the sponsor set: its next call reads the teams
unloaded == maintainerSet = <<>>

MaintainerPinged ==
    \E i \in 1..Len(results) :
        results[i].action.type = "ping-maintainer" /\ results[i].success

\* checkMaintainerAccountability is past its last assignee, or is not called
pastAccountability ==
    pc = "accountability" /\ (~accountable(item) \/ idx > Len(item.assignees))

\* process() is about to read the issue's comments or events
AtRead ==
    \/ pc = "checkStaleness"
    \/ /\ pc = "accountability" /\ ~pastAccountability
       /\ canSponsor(Loaded.sponsors, item.assignees[idx])
    \/ pastAccountability /\ accountable(item) /\ MaintainerPinged

\* the thread of control is parked on a network call, so the answer to
\* another pending call can be delivered
AwaitingIO ==
    \/ pc = "api"
    \/ AtRead
    \/ unloaded /\ pc = "accountability" /\ ~pastAccountability
    \/ unloaded /\ pc = "process" /\ ~skipsClosed(item) /\ ~noAutoTransition(item)
    \/ pc = "idle" /\ mainPc \in {"none", "draining"}
    \/ pc = "idle" /\ mainPc = "dispatching"
          /\ \E i \in 1..Len(hookRuns) : hookRuns[i] = "pending"

SkipClosed ==
    /\ pc = "process"
    /\ skipsClosed(item)
    /\ passLog' = Append(passLog, "skip-closed")
    /\ pc' = "idle"
    /\ UNCHANGED <<passFrame, floatVars, maintainerSet, loadAttempted, analysis, op, ret,
                   result, results, idx>>

NoAutoTransition ==
    /\ pc = "process"
    /\ ~skipsClosed(item)
    /\ \/ /\ noAutoTransition(item)
          /\ UNCHANGED <<maintainerSet, loadAttempted>>
       \/ /\ ~noAutoTransition(item)
          /\ getSponsor(Loaded.sponsors, item.assignees) = NoUser
          /\ LoadSponsors
    /\ pc' = "checkStaleness"
    /\ UNCHANGED <<passFrame, floatVars, analysis, op, ret, result, results, idx, passLog>>

CheckAutoTransition ==
    /\ pc = "process"
    /\ ~skipsClosed(item)
    /\ ~noAutoTransition(item)
    /\ LET sponsor == getSponsor(Loaded.sponsors, item.assignees)
       IN  /\ sponsor # NoUser
           /\ Begin(executeTransition(item, "draft", sponsor, dryRun),
                    "afterTransition")
    /\ LoadSponsors
    /\ passLog' = Append(passLog, "transition")
    /\ UNCHANGED <<passFrame, floatVars, analysis, results, idx>>

\* results.push(transitionResult); return
AfterTransition ==
    /\ pc = "afterTransition"
    /\ results' = Append(results, result)
    /\ summaryData' =
          IF result.success /\ result.action.toState # NoState
          THEN Append(summaryData,
                      Row("transitions", cur, result.action.toState,
                          result.action.targetUser, 0, FALSE))
          ELSE summaryData
    /\ pc' = "idle"
    /\ UNCHANGED <<passFrame, floating, maintainerSet, loadAttempted, analysis, op, ret,
                   result, idx, passLog>>

CheckStaleness ==
    /\ pc = "checkStaleness"
    /\ LET an == analyze(item, comments, now)
       IN  /\ analysis' = an
           /\ IF ~an.shouldPing /\ ~an.shouldMarkDormant
              THEN /\ pc' = "accountability"
                   /\ passLog' = Append(passLog, "analyze")
                   /\ UNCHANGED <<op, ret, result, maintainerSet, loadAttempted>>
              ELSE /\ Begin(executePing(item, an, dryRun, Loaded.sponsors),
                            "afterStaleness")
                   /\ passLog' = passLog \o <<"analyze", "executePing">>
                   /\ IF executePingLoads(an)
                      THEN LoadSponsors
                      ELSE UNCHANGED <<maintainerSet, loadAttempted>>
    /\ UNCHANGED <<passFrame, floatVars, results, idx>>

\* results.push(stalenessResult); updateSummaryFromStaleness is called and
\* not awaited: it returns at once on a failed result, and otherwise is left
\* waiting for analyze()'s read of the comments
AfterStaleness ==
    /\ pc = "afterStaleness"
    /\ results' = Append(results, result)
    /\ floating' =
          IF result.success
          THEN floating \cup {[number |-> cur, item |-> item, result |-> result,
                               pass |-> runs]}
          ELSE floating
    /\ pc' = "accountability"
    /\ UNCHANGED <<passFrame, summaryData, maintainerSet, loadAttempted, analysis, op, ret,
                   result, idx, passLog>>

\* the pings rows of the maintainer results, in order; each re-reads the
\* maintainer's activity
RECURSIVE maintainerRows(_, _)
maintainerRows(rs, i) ==
    IF i > Len(rs) THEN <<>>
    ELSE (IF rs[i].action.type = "ping-maintainer" /\ rs[i].success
             /\ rs[i].action.targetUser # NoUser
          THEN <<Row("pings", cur, "maintainer", rs[i].action.targetUser,
                     checkMaintainerActivity(item, events, comments,
                                             rs[i].action.targetUser,
                                             now).daysSinceActivity,
                     FALSE)>>
          ELSE <<>>)
         \o maintainerRows(rs, i + 1)

\* the pass returns: past the last assignee, or no accountability check at all
EndPass ==
    /\ pastAccountability
    /\ summaryData' =
          IF accountable(item) THEN summaryData \o maintainerRows(results, 1)
          ELSE summaryData
    /\ pc' = "idle"
    /\ UNCHANGED <<passFrame, floating, maintainerSet, loadAttempted, analysis, op, ret,
                   result, results, idx, passLog>>

\* one turn of checkMaintainerAccountability's loop
CheckMaintainerAccountability ==
    /\ pc = "accountability"
    /\ accountable(item) /\ idx <= Len(item.assignees)
    /\ LET assignee == item.assignees[idx]
           activity == checkMaintainerActivity(item, events, comments, assignee, now)
       IN  IF canSponsor(Loaded.sponsors, assignee) /\ activity.shouldPing
           THEN /\ Begin(pingMaintainerDirectly(item, assignee,
                                                activity.daysSinceActivity, dryRun),
                         "afterMaintainerPing")
                /\ passLog' = Append(passLog, "pingMaintainer")
                /\ UNCHANGED idx
           ELSE /\ idx' = idx + 1
                /\ UNCHANGED <<op, pc, ret, result, passLog>>
    /\ LoadSponsors
    /\ UNCHANGED <<passFrame, floatVars, analysis, results>>

AfterMaintainerPing ==
    /\ pc = "afterMaintainerPing"
    /\ results' = Append(results, result)
    /\ idx' = idx + 1
    /\ pc' = "accountability"
    /\ UNCHANGED <<passFrame, floatVars, maintainerSet, loadAttempted, analysis, op, ret,
                   result, passLog>>

\* process.exit(code), or the entry point returning with nothing left to run
Exit(code) ==
    /\ exitCode' = <<code>>
    /\ mainPc' = "exited"

\* a read of the comments or events fails: process() rejects
ProcessThrows ==
    /\ AtRead
    /\ passLog' = Append(passLog, "throw")
    /\ pc' = "idle"
    /\ UNCHANGED <<passFrame, floatVars, maintainerSet, loadAttempted, analysis, op,
                   ret, result, results, idx>>

\* the comments of issue n, as a read made now finds them
CommentsOf(n) == IF n = cur THEN comments ELSE parked[n].comments

getTargetUser(sep, pingTarget, sponsors) ==
    IF pingTarget = "author" THEN Author
    ELSE getSponsor(sponsors, sep.assignees)

\* updateSummaryFromStaleness after its analyze(sep) returned an
summaryRows(f, an, sponsors) ==
    CASE f.result.action.type = "needs-sponsor" ->
            <<Row("needsSponsor", f.number, NoTarget, NoUser,
                  an.daysSinceActivity, FALSE)>>
      [] f.result.action.type = "mark-dormant" ->
            <<Row("dormant", f.number, NoTarget, NoUser,
                  an.daysSinceActivity, an.shouldClose)>>
      [] f.result.action.type \in {"ping-author", "ping-sponsor", "ping-maintainer"} ->
            IF an.pingTarget # NoTarget
            THEN LET targetUser == getTargetUser(f.item, an.pingTarget, sponsors)
                 IN  <<Row("pings", f.number, an.pingTarget,
                           IF targetUser # NoUser THEN targetUser ELSE Author,
                           an.daysSinceActivity, FALSE)>>
            ELSE <<>>
      [] OTHER -> <<>>

\* the read of a pending updateSummaryFromStaleness is answered: it pushes its
\* row into the summaryData object it was given
FloatingResumes ==
    /\ AwaitingIO
    /\ \E f \in floating :
          /\ floating' = floating \ {f}
          /\ summaryData' =
                IF f.pass = runs
                THEN summaryData \o summaryRows(f, analyze(f.item, CommentsOf(f.number), now),
                                                Loaded.sponsors)
                ELSE summaryData
    /\ UNCHANGED <<passFrame, maintainerSet, loadAttempted, analysis, op, pc, ret,
                   result, results, idx, passLog>>

\* the read of a pending updateSummaryFromStaleness fails: nothing handles the
\* rejection.  The runtime either reports it and goes on, or ends the process
\* with exit code 1.
FloatingRejects ==
    /\ AwaitingIO
    /\ \E f \in floating : floating' = floating \ {f}
    /\ \/ UNCHANGED <<pc, mainPc, exitCode>>
       \/ pc' = "crashed" /\ Exit(1)
    /\ UNCHANGED <<remoteVars, envVars, now, item, calls, runs, rulesIn, rulesOut,
                   cur, parked, issueArg, searchIn, seps, pos, allResults, summary,
                   hooks, hookRuns, dispatched, processed, threw,
                   summaryData, maintainerSet, loadAttempted, analysis, op, ret,
                   result, results, idx, passLog>>

Api == RemoveLabel \/ AddLabels \/ AddComment \/ CloseIssue

Next ==
    \/ StartPass
    \/ Advance
    \/ SkipClosed
    \/ NoAutoTransition
    \/ CheckAutoTransition
    \/ AfterTransition
    \/ CheckStaleness
    \/ AfterStaleness
    \/ CheckMaintainerAccountability
    \/ AfterMaintainerPing
    \/ EndPass
    \/ ProcessThrows
    \/ FloatingResumes
    \/ FloatingRejects
    \/ Api

Spec == Init /\ [][Next]_vars

----------------------------------------------------------------------------
(* The handlers called directly, as the unit tests call them: any target,   *)
(* any analysis, on a fresh snapshot of the issue.                          *)

AnalysisInputs ==
    {StaleAnalysis(200, FALSE, TRUE, c, NoTarget, "test") : c \in BOOLEAN}
    \cup {StaleAnalysis(95, TRUE, FALSE, FALSE, t, "test") :
            t \in {"author", "sponsor", "maintainer"}}
    \cup {StaleAnalysis(95, FALSE, FALSE, FALSE, NoTarget, "test")}

InitHandlers ==
    /\ labels \in LabelLists
    /\ updatedAt = -Days(PROPOSAL_DORMANT_DAYS)
    /\ comments = <<>>
    /\ events = <<>>
    /\ closed \in BOOLEAN
    /\ assignees \in AssigneeLists
    /\ teamApi \in TeamApis
    /\ dryRun \in BOOLEAN
    /\ rulesIn = <<NoState, NoState>>
    /\ InitControl
    /\ NoMain

callFrame == <<remoteVars, envVars, now, results, idx, rulesIn, rulesOut,
               floatVars, mainVars>>

StartCall(name) ==
    /\ pc = "idle"
    /\ runs < MaxCalls
    /\ runs' = runs + 1
    /\ item' = Snapshot
    /\ calls' = <<>>
    /\ passLog' = <<name>>

CallExecuteTransition ==
    /\ StartCall("executeTransition")
    /\ \E toState \in SEPStates :
          Begin(executeTransition(item', toState, "alice", dryRun), "idle")
    /\ analysis' = NoAnalysis
    /\ UNCHANGED <<callFrame, maintainerSet, loadAttempted>>

CallExecutePing ==
    /\ StartCall("executePing")
    /\ \E an \in AnalysisInputs :
          /\ analysis' = an
          /\ Begin(executePing(item', an, dryRun, Loaded.sponsors), "idle")
          /\ IF executePingLoads(an)
             THEN LoadSponsors
             ELSE UNCHANGED <<maintainerSet, loadAttempted>>
    /\ UNCHANGED callFrame

CallPingMaintainerDirectly ==
    /\ StartCall("pingMaintainerDirectly")
    /\ \E maintainer \in Users :
          Begin(pingMaintainerDirectly(item', maintainer, 20, dryRun), "idle")
    /\ analysis' = NoAnalysis
    /\ UNCHANGED <<callFrame, maintainerSet, loadAttempted>>

NextHandlers ==
    \/ CallExecuteTransition
    \/ CallExecutePing
    \/ CallPingMaintainerDirectly
    \/ Api

SpecHandlers == InitHandlers /\ [][NextHandlers]_vars

----------------------------------------------------------------------------
(* The rules table called directly: validateTransition(from, to) for every  *)
(* source, null included, and every target label.                           *)

InitRules ==
    /\ labels = <<"SEP">>
    /\ updatedAt = 0
    /\ comments = <<>>
    /\ events = <<>>
    /\ closed = FALSE
    /\ assignees = <<>>
    /\ teamApi = [t \in {"core-maintainers", "moderators"} |-> Failure]
    /\ dryRun = TRUE
    /\ rulesIn \in (SEPStates \cup {NoState}) \X (SEPStates \cup {NoState, "SEP"})
    /\ InitControl
    /\ NoMain

CallValidateTransition ==
    /\ rulesOut = <<>>
    /\ rulesOut' = <<isValidTransition(rulesIn[1], rulesIn[2]),
                     validateTransition(rulesIn[1], rulesIn[2])>>
    /\ UNCHANGED <<remoteVars, envVars, now, maintainerSet, loadAttempted, item,
                   analysis, op, pc, ret, result, results, idx, calls, passLog,
                   runs, rulesIn, floatVars, mainVars>>

NextRules == CallValidateTransition

SpecRules == InitRules /\ [][NextRules]_vars

----------------------------------------------------------------------------
(* sep/detector.ts: findAllSEPs.  A search hit is the issue's number and    *)
(* the search that returned it; the Map keeps keys in first-insertion order *)
(* and the value of the last set.                                           *)

Numbers == 1..MaxItems

Hit(number, from) == [number |-> number, from |-> from]

RECURSIVE mapSet(_, _)
mapSet(entries, hit) ==
    IF entries = <<>> THEN <<hit>>
    ELSE IF Head(entries).number = hit.number THEN <<hit>> \o Tail(entries)
    ELSE <<Head(entries)>> \o mapSet(Tail(entries), hit)

RECURSIVE mapSetAll(_, _)
mapSetAll(entries, hits) ==
    IF hits = <<>> THEN entries
    ELSE mapSetAll(mapSet(entries, Head(hits)), Tail(hits))

findAllSEPsFirstWins(labeledItems, titledItems) ==
    mapSetAll(<<>>, titledItems \o labeledItems)

findAllSEPs(labeledItems, titledItems) ==
    mapSetAll(<<>>, labeledItems \o titledItems)

mainFrame == <<remoteVars, envVars, now, maintainerSet, loadAttempted, item,
               analysis, op, pc, ret, result, results, idx, calls, passLog, runs,
               rulesVars, floatVars>>

\* `issueNumber ? ... : ...`: undefined and 0 select the full sweep
singleIssue(arg) == arg # <<>> /\ arg[1] # 0

\* full sweep: both searches, merged; a search that throws is fatal
FindAllSEPs ==
    /\ mainPc = "start"
    /\ ~singleIssue(issueArg)
    /\ \/ /\ seps' = findAllSEPs(searchIn[1], searchIn[2])
          /\ mainPc' = "loop"
          /\ pos' = 1
          /\ UNCHANGED exitCode
       \/ /\ Exit(1)
          /\ UNCHANGED <<seps, pos>>
    /\ UNCHANGED <<mainFrame, cur, parked, issueArg, searchIn, allResults, summary,
                   hooks, hookRuns, dispatched, processed, threw>>

Issue(ls, as, upd, isClosed, cs, evs) ==
    [labels |-> ls, assignees |-> as, updatedAt |-> upd, closed |-> isClosed,
     comments |-> cs, events |-> evs]

\* the issue at hand, as the repository holds it
CurrentIssue == Issue(labels, assignees, updatedAt, closed, comments, events)

\* single-issue mode: getSEP answers null for an issue that does not exist,
\* and main returns
GetSEP ==
    /\ mainPc = "start"
    /\ singleIssue(issueArg)
    /\ IF issueArg[1] \in DOMAIN parked
       THEN /\ seps' = <<Hit(issueArg[1], "issue")>>
            /\ mainPc' = "loop"
            /\ pos' = 1
       ELSE /\ mainPc' = "draining"
            /\ UNCHANGED <<seps, pos>>
    /\ UNCHANGED <<mainFrame, cur, parked, issueArg, searchIn, allResults, summary,
                   hooks, hookRuns, dispatched, exitCode, processed, threw>>

\* `for (const sep of seps)`: the next item's snapshot goes to process()
StartItem ==
    /\ mainPc = "loop"
    /\ pos <= Len(seps)
    /\ pc = "idle"
    /\ LET n == seps[pos].number
           issue == parked[n]
       IN  /\ cur' = n
           /\ labels' = issue.labels
           /\ assignees' = issue.assignees
           /\ updatedAt' = issue.updatedAt
           /\ closed' = issue.closed
           /\ comments' = issue.comments
           /\ events' = issue.events
           /\ item' = toSEPItem(issue.labels, issue.assignees, issue.updatedAt,
                                issue.closed)
           /\ processed' = Append(processed, n)
    /\ runs' = runs + 1
    /\ analysis' = NoAnalysis
    /\ result' = NoResult
    /\ results' = <<>>
    /\ idx' = 1
    /\ calls' = <<>>
    /\ passLog' = <<>>
    /\ summaryData' = <<>>
    /\ pc' = "process"
    /\ mainPc' = "processing"
    /\ UNCHANGED <<teamApi, dryRun, client, now, maintainerSet, loadAttempted, op, ret,
                   rulesVars, floating, parked, issueArg, searchIn, seps, pos,
                   allResults, summary, hooks, hookRuns, dispatched, exitCode, threw>>

Threw == passLog # <<>> /\ passLog[Len(passLog)] = "throw"

\* process(sep) settled: its results and rows are merged, or its rejection
\* is caught and logged; the loop goes on
Merge ==
    /\ mainPc = "processing"
    /\ pc = "idle"
    /\ IF Threw
       THEN /\ threw' = threw \cup {cur}
            /\ UNCHANGED <<allResults, summary>>
       ELSE /\ allResults' = allResults \o results
            /\ summary' = summary \o summaryData
            /\ UNCHANGED threw
    /\ parked' = [parked EXCEPT ![cur] = CurrentIssue]
    /\ pos' = pos + 1
    /\ mainPc' = "loop"
    /\ UNCHANGED <<mainFrame, cur, issueArg, searchIn, seps, hooks, hookRuns,
                   dispatched, exitCode, processed>>

failedCountsAll(rs) == Len(rs)

\* allResults.filter(r => !r.success).length
failed(rs) == Cardinality({i \in 1..Len(rs) : ~rs[i].success})

\* after the loop: the summary event goes to the hooks, or is skipped
Finish ==
    /\ mainPc = "loop"
    /\ pos > Len(seps)
    /\ IF Len(allResults) > 0 /\ ~singleIssue(issueArg) /\ seps # <<>>
       THEN /\ dispatched' = dispatched + 1
            /\ hookRuns' = [i \in 1..Len(hooks) |-> "pending"]
            /\ mainPc' = "dispatching"
       ELSE /\ mainPc' = "afterSummary"
            /\ UNCHANGED <<dispatched, hookRuns>>
    /\ UNCHANGED <<mainFrame, cur, parked, issueArg, searchIn, seps, pos, allResults,
                   summary, hooks, exitCode, processed, threw>>

hookCatchNothing(outcome) == outcome

\* dispatch wraps each onEvent in try/catch: a rejection is logged
hookCatch(outcome) == IF outcome = "rejected" THEN "caught" ELSE outcome

\* one hook's onEvent settles
HookSettles ==
    /\ mainPc = "dispatching"
    /\ \E i \in 1..Len(hookRuns), outcome \in {"resolved", "rejected"} :
          /\ hookRuns[i] = "pending"
          /\ hookRuns' = [hookRuns EXCEPT ![i] = hookCatch(outcome)]
    /\ UNCHANGED <<mainFrame, cur, parked, issueArg, searchIn, seps, mainPc, pos,
                   allResults, summary, hooks, dispatched, exitCode, processed,
                   threw>>

\* Promise.all over the wrapped calls: rejects with the first rejection,
\* resolves when every call has resolved
DispatchDone ==
    /\ mainPc = "dispatching"
    /\ \/ /\ \E i \in 1..Len(hookRuns) : hookRuns[i] = "rejected"
          /\ Exit(1)
       \/ /\ \A i \in 1..Len(hookRuns) : hookRuns[i] \in {"resolved", "caught"}
          /\ mainPc' = "afterSummary"
          /\ UNCHANGED exitCode
    /\ UNCHANGED <<mainFrame, cur, parked, issueArg, searchIn, seps, pos, allResults,
                   summary, hooks, hookRuns, dispatched, processed, threw>>

\* `if (failed > 0) process.exit(1)`, else main returns
ExitCheck ==
    /\ mainPc = "afterSummary"
    /\ IF failed(allResults) > 0
       THEN Exit(1)
       ELSE mainPc' = "draining" /\ UNCHANGED exitCode
    /\ UNCHANGED <<mainFrame, cur, parked, issueArg, searchIn, seps, pos, allResults,
                   summary, hooks, hookRuns, dispatched, processed, threw>>

\* nothing is pending any more: the process ends with code 0
Drained ==
    /\ mainPc = "draining"
    /\ floating = {}
    /\ Exit(0)
    /\ UNCHANGED <<mainFrame, cur, parked, issueArg, searchIn, seps, pos, allResults,
                   summary, hooks, hookRuns, dispatched, processed, threw>>

\* the issues a sweep meets: a proposal with a sponsor-eligible assignee, a
\* stale draft with its sponsor assigned, a proposal stale enough to go
\* dormant, a closed one
SweepIssues ==
    { Issue(<<"SEP", "proposal">>, <<"alice">>, 0, FALSE, <<>>, <<>>),
      Issue(<<"SEP", "draft">>, <<"alice">>, -Days(DRAFT_PING_DAYS), FALSE, <<>>, <<>>),
      Issue(<<"SEP", "proposal">>, <<>>, -Days(PROPOSAL_DORMANT_DAYS), FALSE, <<>>, <<>>),
      Issue(<<"SEP", "draft">>, <<>>, -Days(DRAFT_PING_DAYS), TRUE, <<>>, <<>>) }

\* the label search misses the last issue and the title search finds it,
\* together with the first
SweepSearch ==
    << [i \in 1..(MaxItems - 1) |-> Hit(i, "label")],
       <<Hit(MaxItems, "title"), Hit(1, "title")>> >>

InitSweep ==
    /\ labels = <<>>
    /\ updatedAt = 0
    /\ comments = <<>>
    /\ events = <<>>
    /\ closed = FALSE
    /\ assignees = <<>>
    /\ teamApi = [t \in {"core-maintainers", "moderators"} |->
                     IF t = "moderators" THEN Answer({"alice"}) ELSE Failure]
    /\ dryRun \in BOOLEAN
    /\ rulesIn = <<NoState, NoState>>
    /\ InitControl
    /\ cur = 0
    /\ parked \in [Numbers -> SweepIssues]
    /\ issueArg \in {<<>>, <<0>>, <<1>>, <<MaxItems + 1>>}
    /\ searchIn = SweepSearch
    /\ seps = <<>>
    /\ mainPc = "start"
    /\ pos = 0
    /\ allResults = <<>>
    /\ summary = <<>>
    /\ hooks = <<"discord">>
    /\ hookRuns = <<>>
    /\ dispatched = 0
    /\ exitCode = <<>>
    /\ processed = <<>>
    /\ threw = {}

NextSweep ==
    \/ FindAllSEPs
    \/ GetSEP
    \/ StartItem
    \/ Merge
    \/ Finish
    \/ HookSettles
    \/ DispatchDone
    \/ ExitCheck
    \/ Drained
    \/ SkipClosed
    \/ NoAutoTransition
    \/ CheckAutoTransition
    \/ AfterTransition
    \/ CheckStaleness
    \/ AfterStaleness
    \/ CheckMaintainerAccountability
    \/ AfterMaintainerPing
    \/ EndPass
    \/ ProcessThrows
    \/ FloatingResumes
    \/ FloatingRejects
    \/ Api

SpecSweep == InitSweep /\ [][NextSweep]_vars

----------------------------------------------------------------------------
(* hooks/registry.ts: dispatch over any list of registered hooks, from the *)
(* point where main's loop has ended with some results collected.          *)

MaxHooks == 2

HookName(i) == IF i = 1 THEN "discord" ELSE "other"

\* the registry after any number of register() calls: the enabled hooks, in
\* registration order
HookLists == {[i \in 1..n |-> HookName(i)] : n \in 0..MaxHooks}

PingResult(success) ==
    ActionResult(createAction("ping-author", [state |-> "proposal"], Author, NoState),
                 success, IF success THEN NoError ELSE <<"api-error">>, 0)

InitHooks ==
    /\ labels = <<"SEP", "proposal">>
    /\ updatedAt = 0
    /\ comments = <<>>
    /\ events = <<>>
    /\ closed = FALSE
    /\ assignees = <<>>
    /\ teamApi = [t \in {"core-maintainers", "moderators"} |-> Failure]
    /\ dryRun \in BOOLEAN
    /\ rulesIn = <<NoState, NoState>>
    /\ InitControl
    /\ cur = 1
    /\ parked = <<>>
    /\ issueArg \in {<<>>, <<1>>}
    /\ searchIn = <<>>
    /\ seps = <<Hit(1, "label")>>
    /\ mainPc = "loop"
    /\ pos = 2
    /\ allResults \in {<<>>, <<PingResult(TRUE)>>, <<PingResult(FALSE)>>,
                       <<PingResult(TRUE), PingResult(FALSE)>>}
    /\ summary = <<>>
    /\ hooks \in HookLists
    /\ hookRuns = <<>>
    /\ dispatched = 0
    /\ exitCode = <<>>
    /\ processed = <<1>>
    /\ threw = {}

NextHooks ==
    \/ Finish
    \/ HookSettles
    \/ DispatchDone
    \/ ExitCheck
    \/ Drained

SpecHooks == InitHooks /\ [][NextHooks]_vars

----------------------------------------------------------------------------
(* the client's credentials: loadConfig, the constructor, and up to MaxOps *)
(* repository operations on the client, for every setting of the three     *)
(* authentication variables.                                                *)

authFrame == <<remoteVars, events, assignees, teamApi, dryRun, now, maintainerSet,
               loadAttempted, item, analysis, op, pc, ret, result, results, idx,
               calls, passLog, runs, rulesVars, floatVars, mainVars>>

LoadConfig ==
    /\ client.startup = "none"
    /\ client' = [client EXCEPT !.startup =
                     IF loadConfigThrows(client.config) THEN "threw" ELSE "loaded"]
    /\ UNCHANGED authFrame

Construct ==
    /\ client.startup # "none"
    /\ ~client.built
    /\ client' = [newClient(client.config) EXCEPT !.startup = client.startup]
    /\ UNCHANGED authFrame

\* one repository operation: ensureInitialized, then the remote call
Operation ==
    /\ client.built
    /\ client.ops < MaxOps
    /\ IF client.initialized
       THEN client' = [client EXCEPT !.ops = @ + 1, !.remote = @ + 1]
       ELSE IF truthy(client.config.appId) /\ truthy(client.config.appPrivateKey)
       THEN \/ client' = [client EXCEPT !.ops = @ + 1, !.installations = @ + 1,
                                        !.found = @ + 1, !.initialized = TRUE,
                                        !.remote = @ + 1]
            \/ client' = [client EXCEPT !.ops = @ + 1, !.installations = @ + 1]
       ELSE client' = [client EXCEPT !.ops = @ + 1, !.authErrors = @ + 1]
    /\ UNCHANGED authFrame

InitAuth ==
    /\ labels = <<"SEP">>
    /\ updatedAt = 0
    /\ comments = <<>>
    /\ events = <<>>
    /\ closed = FALSE
    /\ assignees = <<>>
    /\ teamApi = [t \in {"core-maintainers", "moderators"} |-> Failure]
    /\ dryRun = TRUE
    /\ rulesIn = <<NoState, NoState>>
    /\ InitIdle
    /\ NoMain
    /\ client \in {Unbuilt(cfg) : cfg \in AuthConfigs}

NextAuth ==
    \/ LoadConfig
    \/ Construct
    \/ Operation

SpecAuth == InitAuth /\ [][NextAuth]_vars

----------------------------------------------------------------------------
(* github/client.ts against a repository that people edit too: the label a  *)
(* handler is about to remove may be gone by the time the call is made, and *)
(* a membership lookup may find nobody.                                     *)

\* GET of a team membership: found (active or pending), not found, failure
MembershipResponses ==
    {[status |-> 200, state |-> "active"], [status |-> 200, state |-> "pending"],
     [status |-> 404, state |-> Unset], [status |-> 500, state |-> Unset]}

MemberAnswer(thrown, value) == [threw |-> thrown, value |-> value]

isTeamMemberRethrowsAll(response) ==
    IF response.status = 200
    THEN MemberAnswer(FALSE, response.state = "active")
    ELSE MemberAnswer(TRUE, FALSE)

\* GitHubClient.isTeamMember: active membership, false on 404, else rethrown
isTeamMember(response) ==
    IF response.status = 200
    THEN MemberAnswer(FALSE, response.state = "active")
    ELSE IF isHttpError(response, 404)
    THEN MemberAnswer(FALSE, FALSE)
    ELSE MemberAnswer(TRUE, FALSE)

CallIsTeamMember ==
    /\ pc = "idle"
    /\ rulesOut = <<>>
    /\ \E response \in MembershipResponses :
          /\ rulesIn' = <<response>>
          /\ rulesOut' = <<isTeamMember(response)>>
    /\ UNCHANGED <<remoteVars, envVars, now, maintainerSet, loadAttempted, item,
                   analysis, op, pc, result, ret, results, idx, calls,
                   passLog, runs, floatVars, mainVars>>

\* somebody else takes the label off the issue first
LabelRemovedElsewhere ==
    /\ AtCall("removeLabel")
    /\ Includes(labels, Head(op.todo).arg)
    /\ labels' = removeLabelEffect(labels, Head(op.todo).arg)
    /\ updatedAt' = now
    /\ events' = Append(events, Event("alice", now))
    /\ UNCHANGED <<comments, closed, assignees, teamApi, now, dryRun, client,
                   maintainerSet, loadAttempted, item, analysis, ret, results,
                   idx, passLog, runs, rulesIn, rulesOut, floatVars, mainVars,
                   calls, op, result, pc>>

InitClient ==
    /\ labels \in LabelLists
    /\ updatedAt = -Days(PROPOSAL_DORMANT_DAYS)
    /\ comments = <<>>
    /\ events = <<>>
    /\ closed = FALSE
    /\ assignees = <<"alice">>
    /\ teamApi \in TeamApis
    /\ dryRun = FALSE
    /\ rulesIn = <<NoState, NoState>>
    /\ InitControl
    /\ NoMain

NextClient ==
    \/ CallExecuteTransition
    \/ LabelRemovedElsewhere
    \/ CallIsTeamMember
    \/ RemoveLabel
    \/ AddLabels
    \/ AddComment

SpecClient == InitClient /\ [][NextClient]_vars

----------------------------------------------------------------------------
(* rules.ts: extractState on every label list of up to MaxLabels labels,    *)
(* state labels and others, in every order.                                 *)

LabelNames == SEPStates \cup {"SEP", "bug"}

LabelListsUpTo(n) == UNION {[1..k -> LabelNames] : k \in 0..n}

CallExtractState ==
    /\ rulesOut = <<>>
    /\ rulesOut' = <<extractState(labels)>>
    /\ UNCHANGED <<remoteVars, envVars, now, maintainerSet, loadAttempted, item,
                   analysis, op, pc, ret, result, results, idx, calls, passLog,
                   runs, rulesIn, floatVars, mainVars>>

InitLabels ==
    /\ labels \in LabelListsUpTo(MaxLabels)
    /\ updatedAt = 0
    /\ comments = <<>>
    /\ events = <<>>
    /\ closed = FALSE
    /\ assignees = <<>>
    /\ teamApi = [t \in {"core-maintainers", "moderators"} |-> Failure]
    /\ dryRun = TRUE
    /\ rulesIn = <<NoState, NoState>>
    /\ InitControl
    /\ NoMain

NextLabels == CallExtractState

SpecLabels == InitLabels /\ [][NextLabels]_vars

----------------------------------------------------------------------------
(* hooks/discord.ts: DiscordHook.onEvent, for every webhook setting, every  *)
(* summary with up to MaxRows rows in each section, and an event that is    *)
(* not a summary; the POST, once sent, may be answered in each way.         *)

WebhookUrls == {Unset, "", "https://discord.example/webhook"}

\* new DiscordHook({ webhookUrl }, logger)
DiscordHook(webhookUrl) == [webhookUrl |-> webhookUrl, enabled |-> truthy(webhookUrl)]

\* a section's rows, each by its daysSinceActivity
SectionRows == UNION {[1..n -> {20}] : n \in 0..MaxRows}

SummaryEvents ==
    [type : {"summary"}, dryRun : BOOLEAN, transitions : SectionRows,
     pings : SectionRows, needsSponsor : SectionRows, dormant : SectionRows]

HookEvents == SummaryEvents \cup {[type |-> "transition"]}

Embed(title, lines) == [title |-> title, lines |-> lines]

Section(title, rows) == IF Len(rows) > 0 THEN <<Embed(title, Len(rows))>> ELSE <<>>

\* the summary entry is sent even when nothing happened
createSummaryEmbedsAlways(event) ==
    <<Embed("summary", 1)>>
    \o Section("transitions", event.transitions)
    \o Section("pings", event.pings)
    \o Section("needs-sponsor", event.needsSponsor)
    \o Section("dormant", event.dormant)

createSummaryEmbeds(event) ==
    LET hasActivity == \/ Len(event.transitions) > 0
                       \/ Len(event.pings) > 0
                       \/ Len(event.needsSponsor) > 0
                       \/ Len(event.dormant) > 0
    IN  IF ~hasActivity THEN <<>>
        ELSE <<Embed("summary", 1)>>
             \o Section("transitions", event.transitions)
             \o Section("pings", event.pings)
             \o Section("needs-sponsor", event.needsSponsor)
             \o Section("dormant", event.dormant)

\* the state of one onEvent call: the POSTs made, what was logged as an
\* error, and whether the promise is pending on fetch, resolved or rejected
OnEvent(stage, posts, logged) == [stage |-> stage, posts |-> posts, logged |-> logged]

\* onEvent up to its await
onEvent(hook, event) ==
    IF ~hook.enabled \/ ~truthy(hook.webhookUrl)
    THEN OnEvent("resolved", <<>>, <<>>)
    ELSE IF event.type # "summary"
    THEN OnEvent("resolved", <<>>, <<>>)
    ELSE LET embeds == createSummaryEmbeds(event)
         IN  IF Len(embeds) = 0
             THEN OnEvent("resolved", <<>>, <<>>)
             ELSE OnEvent("fetching", <<embeds>>, <<>>)

\* what fetch can do: a 2xx response, another response, a rejection for a
\* network error, a rejection because the 10-second timer aborted it
FetchOutcomes == {"ok", "not-ok", "network-error", "timeout"}

fetchRejects(outcome) == outcome \in {"network-error", "timeout"}

\* the abort of the timer is not caught
onEventSettleAbortEscapes(call, outcome) ==
    IF outcome = "timeout"
    THEN [call EXCEPT !.stage = "rejected"]
    ELSE IF fetchRejects(outcome)
    THEN [call EXCEPT !.stage = "resolved",
                      !.logged = Append(@, "Error sending Discord notification")]
    ELSE IF outcome # "ok"
    THEN [call EXCEPT !.stage = "resolved",
                      !.logged = Append(@, "Failed to send Discord summary")]
    ELSE [call EXCEPT !.stage = "resolved"]

\* onEvent from the await on: the response check and the catch block
onEventSettle(call, outcome) ==
    IF fetchRejects(outcome)
    THEN [call EXCEPT !.stage = "resolved",
                      !.logged = Append(@, IF outcome = "timeout"
                                           THEN "Discord notification timed out"
                                           ELSE "Error sending Discord notification")]
    ELSE IF outcome # "ok"
    THEN [call EXCEPT !.stage = "resolved",
                      !.logged = Append(@, "Failed to send Discord summary")]
    ELSE [call EXCEPT !.stage = "resolved"]

discordFrame == <<remoteVars, envVars, now, maintainerSet, loadAttempted, item,
                  analysis, op, pc, ret, result, results, idx, calls, passLog,
                  runs, floatVars, mainVars>>

CallOnEvent ==
    /\ rulesOut = <<>>
    /\ rulesOut' = <<onEvent(rulesIn[1], rulesIn[2])>>
    /\ UNCHANGED <<rulesIn, discordFrame>>

FetchSettles ==
    /\ rulesOut # <<>>
    /\ rulesOut[1].stage = "fetching"
    /\ \E outcome \in FetchOutcomes :
          /\ rulesOut' = <<onEventSettle(rulesOut[1], outcome)>>
          /\ rulesIn' = Append(rulesIn, outcome)
    /\ UNCHANGED discordFrame

InitDiscord ==
    /\ labels = <<"SEP">>
    /\ updatedAt = 0
    /\ comments = <<>>
    /\ events = <<>>
    /\ closed = FALSE
    /\ assignees = <<>>
    /\ teamApi = [t \in {"core-maintainers", "moderators"} |-> Failure]
    /\ dryRun = TRUE
    /\ rulesIn \in {<<DiscordHook(url), event>> : url \in WebhookUrls, event \in HookEvents}
    /\ InitControl
    /\ NoMain

NextDiscord == CallOnEvent \/ FetchSettles

SpecDiscord == InitDiscord /\ [][NextDiscord]_vars

----------------------------------------------------------------------------
(* maintainers/resolver.ts used by up to MaxCallers callers of canSponsor   *)
(* whose calls may overlap: the first load waits for the team lookups, and  *)
(* other calls may start before it has stored the set.                      *)

Caller(stage, sponsors, answer) ==
    [stage |-> stage, sponsors |-> sponsors, answer |-> answer]

resolverFrame == <<remoteVars, envVars, now, item, analysis, op, pc, ret, result,
                   results, idx, calls, passLog, runs, floatVars, mainVars>>

\* canSponsor(username) up to the first await inside ensureSponsorsLoaded
CallCanSponsor ==
    /\ Len(rulesOut) < MaxCallers
    /\ \E username \in Users :
          /\ rulesIn' = Append(rulesIn, username)
          /\ IF maintainerSet # <<>> \/ loadAttempted
             THEN LET sponsors ==
                        ensureSponsorsLoaded(maintainerSet, loadAttempted, teamApi).sponsors
                  IN  /\ rulesOut' = Append(rulesOut,
                             Caller("returned", sponsors, canSponsor(sponsors, username)))
                      /\ UNCHANGED <<maintainerSet, loadAttempted>>
             ELSE /\ loadAttempted' = TRUE
                  /\ rulesOut' = Append(rulesOut, Caller("loading", {}, FALSE))
                  /\ UNCHANGED maintainerSet
    /\ UNCHANGED resolverFrame

\* the team lookups of the load have answered: the set is stored and returned
LoadCompletes ==
    /\ \E i \in 1..Len(rulesOut) :
          /\ rulesOut[i].stage = "loading"
          /\ LET loaded == ensureSponsorsLoaded(<<>>, FALSE, teamApi)
             IN  /\ maintainerSet' = loaded.maintainerSet
                 /\ rulesOut' = [rulesOut EXCEPT ![i] =
                        Caller("returned", loaded.sponsors,
                               canSponsor(loaded.sponsors, rulesIn[i]))]
    /\ UNCHANGED <<rulesIn, loadAttempted, resolverFrame>>

InitResolver ==
    /\ labels = <<"SEP">>
    /\ updatedAt = 0
    /\ comments = <<>>
    /\ events = <<>>
    /\ closed = FALSE
    /\ assignees = <<>>
    /\ teamApi \in TeamApis
    /\ dryRun = TRUE
    /\ rulesIn = <<>>
    /\ InitControl
    /\ NoMain

NextResolver == CallCanSponsor \/ LoadCompletes

SpecResolver == InitResolver /\ [][NextResolver]_vars

Hits(from) ==
    UNION {[1..n -> {Hit(k, from) : k \in Numbers}] : n \in 0..MaxHits}

InitDetector ==
    /\ labels = <<"SEP">>
    /\ updatedAt = 0
    /\ comments = <<>>
    /\ events = <<>>
    /\ closed = FALSE
    /\ assignees = <<>>
    /\ teamApi = [t \in {"core-maintainers", "moderators"} |-> Failure]
    /\ dryRun = TRUE
    /\ rulesIn = <<NoState, NoState>>
    /\ InitControl
    /\ cur = 0
    /\ parked = <<>>
    /\ issueArg = <<>>
    /\ searchIn \in {<<l, t>> : l \in Hits("label"), t \in Hits("title")}
    /\ seps = <<>>
    /\ mainPc = "start"
    /\ pos = 0
    /\ allResults = <<>>
    /\ summary = <<>>
    /\ hooks = <<>>
    /\ hookRuns = <<>>
    /\ dispatched = 0
    /\ exitCode = <<>>
    /\ processed = <<>>
    /\ threw = {}

NextDetector == FindAllSEPs

SpecDetector == InitDetector /\ [][NextDetector]_vars

----------------------------------------------------------------------------
(* Properties *)

Range(seq) == {seq[i] : i \in 1..Len(seq)}

\* the indices of the calls to api that returned normally
OkCalls(api) == {i \in 1..Len(calls) : calls[i].api = api /\ calls[i].ok}

\* the call that threw, when the handler returned through its catch block
FailedCall == calls[Len(calls)]
ReturnedFromCatch == pc = ret /\ calls # <<>> /\ ~FailedCall.ok

\* a direct call of the named handler has been made and this is its state
InCall(name) == passLog = <<name>>
Returned == pc = "idle"

\* the edges of the lifecycle graph, as rules.ts documents them
Edges ==
    {<<"proposal", "draft">>, <<"proposal", "dormant">>,
     <<"draft", "in-review">>, <<"draft", "dormant">>,
     <<"in-review", "accepted">>, <<"in-review", "draft">>, <<"in-review", "dormant">>,
     <<"accepted", "final">>, <<"accepted", "dormant">>,
     <<"dormant", "proposal">>, <<"dormant", "draft">>}

\* C1: for every source S (none included) and every target T,
\* isValidTransition(S, T) is true iff S is absent or T is one of S's outgoing
\* edges; from final it is false for every T.  validateTransition agrees.
C1_IsValidTransition ==
    rulesOut # <<>> =>
        LET S == rulesIn[1]
            T == rulesIn[2]
        IN  /\ rulesOut[1] <=> (S = NoState \/ <<S, T>> \in Edges)
            /\ rulesOut[1] <=> (S = NoState \/ T \in Range(STATE_TRANSITIONS[S]))
            /\ S = "final" => ~rulesOut[1]
            /\ rulesOut[2].valid = rulesOut[1]

C1_Witness ==
    /\ rulesOut # <<>>
    /\ rulesIn = <<"final", "dormant">>
    /\ ~rulesOut[1]

\* C2: final is terminal.  On an item whose state is final, executeTransition
\* to any target and executePing with shouldMarkDormant return success=false
\* at once, with no removeLabel, addLabels or closeIssue call; and no step of
\* any handler takes the final label off an item that carries it.
C2_FinalCallsFail ==
    (/\ item.state = "final"
     /\ InCall("executeTransition") \/ (InCall("executePing") /\ analysis.shouldMarkDormant))
    => /\ Returned
       /\ ~result.success
       /\ calls = <<>>
       /\ "final" \in Range(labels)

C2_FinalIsTerminal ==
    /\ []C2_FinalCallsFail
    /\ [][("final" \in Range(labels)) => ("final" \in Range(labels'))]_vars

C2_Witness ==
    /\ item.state = "final"
    /\ InCall("executePing") /\ analysis.shouldMarkDormant
    /\ ~dryRun
    /\ Returned /\ ~result.success

\* a direct executePing that marks dormant, not in dry run
MarkingDormant ==
    InCall("executePing") /\ analysis.shouldMarkDormant /\ ~dryRun

\* C3: marking dormant, not in dry run, an item in state proposal or draft
\* succeeds when no API call fails, and addLabels(dormant) is issued only
\* after removeLabel(prior state) has returned.
C3_RemoveBeforeAdd ==
    (MarkingDormant /\ item.state \in {"proposal", "draft"}) =>
        /\ (Returned /\ \A i \in 1..Len(calls) : calls[i].ok)
              => (result.success /\ result.action.type = "mark-dormant")
        /\ \A i \in 1..Len(calls) :
              (calls[i].api = "addLabels") =>
                 /\ calls[i].arg = "dormant"
                 /\ \E j \in 1..(i - 1) :
                       calls[j] = [api |-> "removeLabel", arg |-> item.state, ok |-> TRUE]
        /\ (Returned /\ result.success) =>
              /\ Len(calls) >= 2
              /\ calls[1] = [api |-> "removeLabel", arg |-> item.state, ok |-> TRUE]
              /\ calls[2] = [api |-> "addLabels", arg |-> "dormant", ok |-> TRUE]
              /\ "dormant" \in Range(labels)
              /\ item.state \notin Range(labels)

C3_Witness ==
    /\ MarkingDormant
    /\ item.state = "draft"
    /\ Returned /\ result.success
    /\ Len(calls) = 3

\* the place of each call in markDormant's order
Rank(api) ==
    CASE api = "removeLabel" -> 1
      [] api = "addLabels"   -> 2
      [] api = "addComment"  -> 3
      [] api = "closeIssue"  -> 4

\* markDormant's calls come in the order remove, add, comment, close, each
\* after the one before it returned normally
C4_Order ==
    /\ \A i, j \in 1..Len(calls) : i < j => Rank(calls[i].api) < Rank(calls[j].api)
    /\ \A i \in 1..(Len(calls) - 1) : calls[i].ok

\* never closed by markDormant without the dormant label
C4_NeverClosedUnlabelled ==
    OkCalls("closeIssue") # {} => "dormant" \in Range(labels)

\* C4 as claimed: ... and a failure partway leaves the item labeled dormant
\* but not yet closed
C4_FailureLeavesDormant ==
    MarkingDormant =>
        /\ C4_Order
        /\ C4_NeverClosedUnlabelled
        /\ (Returned /\ ReturnedFromCatch) =>
              ("dormant" \in Range(labels) /\ OkCalls("closeIssue") = {})

\* C4, amended: markDormant calls removeLabel, addLabels, addComment,
\* closeIssue in that order; when addComment or closeIssue fails the item is
\* labeled dormant and not closed by the bot; when removeLabel fails its labels
\* are untouched, when addLabels fails it has lost its state label and has no
\* dormant label added, and in both cases it is not closed by the bot; in no
\* state has markDormant closed the item without the dormant label on it.
C4_FailurePartway ==
    MarkingDormant =>
        /\ C4_Order
        /\ C4_NeverClosedUnlabelled
        /\ (Returned /\ ReturnedFromCatch) =>
              /\ OkCalls("closeIssue") = {}
              /\ FailedCall.api \in {"addComment", "closeIssue"}
                    => "dormant" \in Range(labels)
              /\ FailedCall.api = "removeLabel" => labels = item.labels
              /\ FailedCall.api = "addLabels"
                    => labels = removeLabelEffect(item.labels, item.state)

C4_Witness ==
    /\ MarkingDormant
    /\ Returned /\ ReturnedFromCatch
    /\ FailedCall.api = "closeIssue"
    /\ "dormant" \in Range(labels)
    /\ closed = item.isClosed

\* within a pass of process(), after analyze() ran and before any comment of
\* this pass was posted: the comments are those analyze() read
InPass == pc # "idle"
Analyzed == "analyze" \in Range(passLog)
CommentsAsAnalyzed == OkCalls("addComment") = {}

\* the most recent comment carrying the bot marker is fewer than
\* PING_COOLDOWN_DAYS whole days old
InCooldown ==
    \E i \in 1..Len(comments) :
        /\ comments[i].marker
        /\ \A j \in (i + 1)..Len(comments) : ~comments[j].marker
        /\ now - comments[i].at < Days(PING_COOLDOWN_DAYS)

NoActionAtAll(an) ==
    /\ ~an.shouldPing
    /\ ~an.shouldMarkDormant
    /\ ~an.shouldClose
    /\ an.pingTarget = NoTarget

\* C5: when the most recent bot-marked comment is fewer than pingCooldownDays
\* days old, analyze returns shouldPing, shouldMarkDormant and shouldClose all
\* false, in every item state and at every inactivity.
C5_Cooldown ==
    (InPass /\ Analyzed /\ CommentsAsAnalyzed /\ InCooldown)
        => NoActionAtAll(analysis)

C5_Witness ==
    /\ InPass /\ Analyzed /\ CommentsAsAnalyzed /\ InCooldown
    /\ item.state = "proposal"
    /\ now - item.updatedAt >= Days(PROPOSAL_DORMANT_DAYS)
    /\ NoActionAtAll(analysis)

\* C6 as claimed: any two bot ping comments on the item (author ping, sponsor
\* ping, needs-sponsor comment, maintainer ping) are at least pingCooldownDays
\* days apart, across passes and within one pass.
C6_PingsCooldownApart ==
    \A i, j \in 1..Len(comments) :
        (/\ i < j
         /\ comments[i].marker /\ comments[i].kind \in PingKinds
         /\ comments[j].marker /\ comments[j].kind \in PingKinds)
        => comments[j].at - comments[i].at >= Days(PING_COOLDOWN_DAYS)

\* C7: for a proposal outside cooldown, with d the whole days since updatedAt:
\* d >= proposalDormantDays gives mark-dormant and close and no ping; d in
\* [proposalPingDays, proposalDormantDays) gives a ping of the author and no
\* dormant marking; smaller d gives no action.  (Defaults: 180 and 90.)
C7_ProposalThresholds ==
    (InPass /\ Analyzed /\ CommentsAsAnalyzed /\ ~InCooldown /\ item.state = "proposal")
    => LET d == analysis.daysSinceActivity
           elapsed == now - item.updatedAt
       IN  /\ Days(d) <= elapsed /\ elapsed < Days(d + 1)
           /\ d >= PROPOSAL_DORMANT_DAYS =>
                 /\ analysis.shouldMarkDormant /\ analysis.shouldClose
                 /\ ~analysis.shouldPing
           /\ (PROPOSAL_PING_DAYS <= d /\ d < PROPOSAL_DORMANT_DAYS) =>
                 /\ analysis.shouldPing /\ analysis.pingTarget = "author"
                 /\ ~analysis.shouldMarkDormant /\ ~analysis.shouldClose
           /\ d < PROPOSAL_PING_DAYS => NoActionAtAll(analysis)
           /\ d = 180 => (analysis.shouldMarkDormant /\ analysis.shouldClose)
           /\ d = 179 => (~analysis.shouldMarkDormant /\ ~analysis.shouldClose)
           /\ d = 90 => (analysis.shouldPing /\ analysis.pingTarget = "author")

C7_Witness ==
    /\ InPass /\ Analyzed /\ CommentsAsAnalyzed /\ ~InCooldown
    /\ item.state = "proposal"
    /\ analysis.daysSinceActivity = 179
    /\ now - item.updatedAt > Days(179)
    /\ analysis.shouldPing /\ ~analysis.shouldMarkDormant

Eligible(user) == user \in Loaded.sponsors

\* the staleness step of this pass called executePing on a draft inactive for
\* at least draftPingDays, none of whose assignees can sponsor
DraftWithoutSponsor ==
    /\ InPass
    /\ item.state = "draft"
    /\ now - item.updatedAt >= Days(DRAFT_PING_DAYS)
    /\ "executePing" \in Range(passLog)
    /\ \A a \in Range(item.assignees) : ~Eligible(a)

NeedsSponsorComments ==
    {i \in 1..Len(calls) : calls[i].api = "addComment" /\ calls[i].arg = "needs-sponsor"}

\* C8: for a draft inactive for at least draftPingDays with no sponsor-eligible
\* assignee, executePing's action is needs-sponsor, never ping-sponsor; it
\* posts the needs-sponsor comment once (not at all in dry run) and no
\* sponsor ping.
C8_NeedsSponsor ==
    DraftWithoutSponsor =>
        /\ (pc = "api" /\ ret = "afterStaleness") =>
              /\ op.action.type = "needs-sponsor"
              /\ op.todo = <<Call("addComment", "needs-sponsor", NoUser)>>
        /\ pc = "afterStaleness" => result.action.type = "needs-sponsor"
        /\ results # <<>> => results[1].action.type = "needs-sponsor"
        /\ \A i \in 1..Len(results) : results[i].action.type # "ping-sponsor"
        /\ \A i \in 1..Len(calls) : calls[i].arg # "ping-sponsor"
        /\ Cardinality(NeedsSponsorComments) <= 1
        /\ dryRun => NeedsSponsorComments = {}
        /\ (results # <<>> /\ results[1].success /\ ~dryRun) =>
              /\ Cardinality(NeedsSponsorComments) = 1
              /\ comments[results[1].commentUrl].kind = "needs-sponsor"

C8_Witness ==
    /\ DraftWithoutSponsor
    /\ item.assignees # <<>>
    /\ ~dryRun
    /\ pc = "afterStaleness"
    /\ result.action.type = "needs-sponsor" /\ result.success
    /\ comments[Len(comments)].kind = "needs-sponsor"

\* u is the first assignee of the snapshot who can sponsor
FirstEligible(u) ==
    \E i \in 1..Len(item.assignees) :
        /\ item.assignees[i] = u
        /\ Eligible(u)
        /\ \A j \in 1..(i - 1) : ~Eligible(item.assignees[j])

\* a pass over an open proposal with a sponsor-eligible assignee
AutoTransitionPass ==
    /\ runs > 0
    /\ ~item.isClosed
    /\ item.state = "proposal"
    /\ \E a \in Range(item.assignees) : Eligible(a)

\* C9: in one pass an open proposal with a sponsor-eligible assignee gets
\* exactly one action, the transition to draft with the first eligible assignee
\* as sponsor; no staleness analysis, ping, dormant marking or close happens in
\* that pass, whatever the inactivity.
C9_AutoTransitionOnly ==
    AutoTransitionPass =>
        /\ pc \in {"process", "api", "afterTransition", "idle"}
        /\ ~Analyzed /\ analysis = NoAnalysis
        /\ passLog \in {<<>>, <<"transition">>}
        /\ \A i \in 1..Len(calls) :
              \/ calls[i].api = "removeLabel" /\ calls[i].arg = "proposal"
              \/ calls[i].api = "addLabels" /\ calls[i].arg = "draft"
              \/ calls[i].api = "addComment" /\ calls[i].arg = "transition"
        /\ Len(results) <= 1
        /\ pc = "idle" =>
              /\ Len(results) = 1
              /\ results[1].action.type = "transition"
              /\ results[1].action.fromState = "proposal"
              /\ results[1].action.toState = "draft"
              /\ FirstEligible(results[1].action.targetUser)

C9_Witness ==
    /\ AutoTransitionPass
    /\ pc = "idle"
    /\ now - item.updatedAt >= Days(PROPOSAL_DORMANT_DAYS)
    /\ Len(item.assignees) = 2 /\ ~Eligible(item.assignees[1])
    /\ results[1].success /\ ~dryRun
    /\ results[1].action.targetUser = item.assignees[2]

\* C10: with dryRun=true no call of executeTransition, executePing or
\* pingMaintainerDirectly reaches removeLabel, addLabels, addComment or
\* closeIssue, and the issue's labels, comments and closed flag never change.
C10_NoCallsInDryRun == dryRun => (calls = <<>> /\ pc = "idle")

C10_DryRunMutatesNothing ==
    /\ []C10_NoCallsInDryRun
    /\ [][dryRun => UNCHANGED <<labels, comments, closed>>]_vars

C10_Witness ==
    /\ dryRun
    /\ InCall("executeTransition")
    /\ item.state = "proposal"
    /\ result.action.toState = "draft" /\ result.success
    /\ Returned
    /\ labels = item.labels

\* C11 as claimed: with dryRun=true every call of executeTransition,
\* executePing and pingMaintainerDirectly returns success=true (validation of
\* the transition is skipped in dry run).
C11_DryRunAlwaysSucceeds ==
    (dryRun /\ runs > 0 /\ Returned) => result.success

\* the target the current executeTransition call was given
CalledTarget == IF pc = "api" THEN op.action.toState ELSE result.action.toState

InvalidTransitionCall ==
    /\ InCall("executeTransition")
    /\ item.state # NoState
    /\ <<item.state, CalledTarget>> \notin Edges

\* C13: executeTransition on an item in state S with a target T that is not an
\* edge of S returns success=false at once, with an error naming the edge
\* S -> T and the legal targets of S, and calls none of removeLabel, addLabels,
\* addComment.
C13_InvalidTransitionRejected ==
    InvalidTransitionCall =>
        /\ Returned
        /\ ~result.success
        /\ Len(result.error) >= 3
        /\ SubSeq(result.error, 1, 3) = <<"Invalid transition", item.state, CalledTarget>>
        /\ Range(SubSeq(result.error, 4, Len(result.error)))
              = {T \in SEPStates : <<item.state, T>> \in Edges}
        /\ calls = <<>>
        /\ labels = item.labels

C13_Witness ==
    /\ InvalidTransitionCall
    /\ ~dryRun
    /\ item.state = "in-review"
    /\ CalledTarget = "final"
    /\ result.error = <<"Invalid transition", "in-review", "final",
                        "accepted", "draft", "dormant">>

\* a direct, non-dry-run executeTransition call that passes validation
ValidTransitionCall ==
    /\ InCall("executeTransition")
    /\ ~dryRun
    /\ item.state = NoState \/ <<item.state, CalledTarget>> \in Edges

ExpectedTransitionCalls ==
    (IF item.state # NoState THEN << <<"removeLabel", item.state>> >> ELSE <<>>)
    \o << <<"addLabels", CalledTarget>>, <<"addComment", "transition">> >>

\* C14: a valid non-dry-run executeTransition calls removeLabel(old state) if
\* the item has a state, then addLabels([new state]), then addComment, each
\* only after the one before returned; when all return, the result has
\* success=true and the commentUrl addComment returned.
C14_TransitionCallOrder ==
    ValidTransitionCall =>
        /\ Len(calls) <= Len(ExpectedTransitionCalls)
        /\ \A i \in 1..Len(calls) :
              /\ <<calls[i].api, calls[i].arg>> = ExpectedTransitionCalls[i]
              /\ i < Len(calls) => calls[i].ok
        /\ pc = "api" =>
              /\ Len(calls) + Len(op.todo) = Len(ExpectedTransitionCalls)
              /\ \A i \in 1..Len(calls) : calls[i].ok
        /\ Returned =>
              /\ result.success <=>
                    /\ Len(calls) = Len(ExpectedTransitionCalls)
                    /\ \A i \in 1..Len(calls) : calls[i].ok
              /\ result.success =>
                    /\ result.commentUrl = Len(comments)
                    /\ comments[result.commentUrl].kind = "transition"
                    /\ comments[result.commentUrl].at = now
                    /\ CalledTarget \in Range(labels)

C14_Witness ==
    /\ ValidTransitionCall
    /\ Returned
    /\ item.state = "proposal" /\ CalledTarget = "draft"
    /\ result.success
    /\ Len(calls) = 3
    /\ comments[result.commentUrl].mention = "alice"

NumbersOf(hits) == {hits[i].number : i \in 1..Len(hits)}

\* C12: findAllSEPs returns no two items with the same number; its numbers
\* are the union of both searches' numbers; a number the title search
\* returned is kept as the title search's snapshot, any other as the label
\* search's.
C12_FindAllDeduplicates ==
    mainPc = "loop" =>
        /\ \A i, j \in 1..Len(seps) : seps[i].number = seps[j].number => i = j
        /\ NumbersOf(seps) = NumbersOf(searchIn[1]) \cup NumbersOf(searchIn[2])
        /\ \A i \in 1..Len(seps) :
              seps[i].from =
                 IF seps[i].number \in NumbersOf(searchIn[2]) THEN "title" ELSE "label"

C12_Witness ==
    /\ mainPc = "loop"
    /\ searchIn = << <<Hit(1, "label"), Hit(2, "label")>>, <<Hit(2, "title")>> >>
    /\ seps = <<Hit(1, "label"), Hit(2, "title")>>

\* C15: the sweep handles its items strictly one after another: once the
\* processing of an item has begun, no client call made for another item is
\* started or pending.
C15_NoCallOfEarlierItemPending ==
    mainPc = "processing" => \A f \in floating : f.number = cur

\* process(sep) has resolved and the entry point is about to merge what it
\* returned
ProcessResolved == mainPc = "processing" /\ pc = "idle" /\ ~Threw

StalenessTypes == {"ping-author", "ping-sponsor", "needs-sponsor", "mark-dormant"}

rowKind(type) ==
    CASE type = "needs-sponsor" -> "needsSponsor"
      [] type = "mark-dormant" -> "dormant"
      [] OTHER -> "pings"

\* C16: when process(sep) resolves, the summaryData it returns already holds
\* the row of every successful staleness action in its results, so the rows
\* the entry point merges cover every successful action of the item.
C16_SummaryHoldsEveryStalenessRow ==
    ProcessResolved =>
        \A i \in 1..Len(results) :
            (results[i].success /\ results[i].action.type \in StalenessTypes) =>
                \E j \in 1..Len(summaryData) :
                    /\ summaryData[j].number = cur
                    /\ summaryData[j].kind = rowKind(results[i].action.type)

IsPrefix(s, t) == Len(s) <= Len(t) /\ SubSeq(t, 1, Len(s)) = s

\* process() was called on every item of the list that comes after item j
LaterItemsProcessed(j) ==
    \A i \in 1..Len(seps) : j < i => seps[i].number \in Range(processed)

\* C17: if processing an item throws, the sweep still calls process on every
\* later item of the list, and the results collected for earlier items are
\* kept.
C17_SweepGoesOnAfterThrow ==
    /\ [](mainPc = "exited" =>
             \A j \in 1..Len(seps) : seps[j].number \in threw => LaterItemsProcessed(j))
    /\ [][IsPrefix(allResults, allResults')]_vars

AnyActionFailed == \E i \in 1..Len(allResults) : ~allResults[i].success

\* findAllSEPs threw: main's catch logs it and exits before the loop
SearchThrew == ~singleIssue(issueArg) /\ pos = 0

\* a rejection nothing handles ended the process
UnhandledRejection == pc = "crashed"

\* C18: the exit code is 0 on full success and 1 if some collected
\* ActionResult has success=false or an unhandled error occurred; it depends
\* on whether any action failed, not on whether every item was processed.
C18_ExitCode ==
    mainPc = "exited" =>
        exitCode = <<IF AnyActionFailed \/ SearchThrew \/ UnhandledRejection
                     THEN 1 ELSE 0>>

\* an item threw, the others' actions succeeded: exit code 0
C18_Witness ==
    /\ mainPc = "exited"
    /\ exitCode = <<0>>
    /\ threw # {}
    /\ Len(allResults) > 0
    /\ Len(processed) = MaxItems

Dispatched == dispatched > 0 /\ mainPc # "loop"

\* C19: dispatch invokes onEvent on every registered hook even when other
\* hooks reject, awaits all of them jointly, and never rejects itself; so a
\* failing hook cannot change the run's failed count or its exit code.
C19_HookFailuresIsolated ==
    /\ Dispatched =>
          /\ Len(hookRuns) = Len(hooks)
          /\ \A i \in 1..Len(hookRuns) : hookRuns[i] # "rejected"
    /\ (Dispatched /\ mainPc # "dispatching") =>
          \A i \in 1..Len(hookRuns) : hookRuns[i] \in {"resolved", "caught"}
    /\ mainPc = "exited" => exitCode = <<IF AnyActionFailed THEN 1 ELSE 0>>

\* the first hook rejected, the second ran and resolved, the run exits 0
C19_Witness ==
    /\ mainPc = "exited"
    /\ dispatched = 1
    /\ Len(hooks) = 2
    /\ hookRuns = <<"caught", "resolved">>
    /\ exitCode = <<0>>

\* C20: in every run the summary event is dispatched to the hooks at most
\* once, and it is dispatched if and only if at least one action occurred in
\* the run and the run was not in single-issue mode.
C20_SummaryOnceIffAction ==
    /\ dispatched <= 1
    /\ mainPc = "exited" =>
          (dispatched = 1 <=> (Len(allResults) > 0 /\ ~singleIssue(issueArg)))

\* the members of the sponsor teams that answered
AnsweredMembers ==
    UNION {teamApi[SPONSOR_TEAMS[i]].members :
              i \in {j \in 1..Len(SPONSOR_TEAMS) : teamApi[SPONSOR_TEAMS[j]].ok}}

\* a pending updateSummaryFromStaleness that will call getSponsor
WillAskSponsor(f) ==
    /\ f.result.action.type \in {"ping-author", "ping-sponsor", "ping-maintainer"}
    /\ f.item.state = "draft"

\* C21: the resolver loads the sponsor set at most once: a team that fails is
\* skipped; a non-empty union of the teams that answered is the sponsor set
\* of every later canSponsor call, with the fallback list not consulted; an
\* empty union gives the hardcoded fallback set.
C21_SponsorsLoadedOnce ==
    /\ [](/\ maintainerSet = <<>> => ~loadAttempted
          /\ maintainerSet # <<>> =>
                /\ loadAttempted
                /\ maintainerSet[1] = IF AnsweredMembers # {} THEN AnsweredMembers
                                      ELSE FALLBACK_SPONSORS
                /\ Loaded.sponsors = maintainerSet[1]
          /\ \A f \in floating : WillAskSponsor(f) => maintainerSet # <<>>)
    /\ [][maintainerSet # <<>> =>
             /\ maintainerSet' = maintainerSet
             /\ loadAttempted' = loadAttempted]_vars

\* one team failed, the other answered; the second pass asks canSponsor of an
\* assignee who is on the fallback list only, and is told no
C21_Witness ==
    /\ ~teamApi["core-maintainers"].ok
    /\ maintainerSet = <<{"alice"}>>
    /\ runs = 2
    /\ pc = "accountability"
    /\ accountable(item)
    /\ item.assignees = <<"bob", "alice">>
    /\ idx = 2
    /\ "bob" \in FALLBACK_SPONSORS

SomeEligible == \E i \in 1..Len(item.assignees) : Eligible(item.assignees[i])

\* pingSponsor has returned to process()
SponsorPingReturned ==
    pc = "afterStaleness" /\ item.state = "draft" /\ analysis.pingTarget = "sponsor"

\* C22: getSponsor(assignees) returns the assignee with the smallest index
\* for which canSponsor is true, and null when no assignee is eligible or the
\* list is empty.
C22_GetSponsorFirstEligible ==
    /\ SponsorPingReturned =>
          IF SomeEligible
          THEN /\ result.action.type = "ping-sponsor"
               /\ FirstEligible(result.action.targetUser)
          ELSE /\ result.action.type = "needs-sponsor"
               /\ result.action.targetUser = NoUser
    /\ pc = "afterTransition" => FirstEligible(result.action.targetUser)
    /\ (pc = "checkStaleness" /\ ~noAutoTransition(item)) => ~SomeEligible

\* two eligible assignees: the first is the sponsor
C22_Witness ==
    /\ SponsorPingReturned
    /\ item.assignees = <<"bob", "alice">>
    /\ Eligible("alice") /\ Eligible("bob")
    /\ result.action.targetUser = "bob"

\* an empty list: no sponsor
C22_WitnessNone ==
    /\ SponsorPingReturned
    /\ item.assignees = <<>>
    /\ result.action.type = "needs-sponsor"

SomeCallFailed == \E i \in 1..Len(calls) : ~calls[i].ok

\* C23: a failure of a label, comment or close call inside a handler never
\* propagates as an exception: the handler returns an ActionResult with
\* success=false and the error message, and that result is counted in the
\* run's failed total.
C23_CallFailureIsCountedFailure ==
    /\ ReturnedFromCatch => (~result.success /\ result.error = <<"api-error">>)
    /\ (mainPc = "loop" /\ SomeCallFailed) => AnyActionFailed

TokenAuth == truthy(client.config.githubToken)

AppAuth ==
    ~TokenAuth /\ truthy(client.config.appId) /\ truthy(client.config.appPrivateKey)

\* C24: credentials are resolved lazily: with a token the client is ready at
\* construction; with app id and private key the first repository operation
\* discovers the installation once and later operations reuse it; with
\* neither, loadConfig throws at startup and every client operation fails
\* with the authentication error before any remote call.
C24_LazyCredentials ==
    /\ client.startup # "none" =>
          (client.startup = "threw" <=> (~TokenAuth /\ ~AppAuth))
    /\ ~client.built => (client.remote = 0 /\ client.installations = 0)
    /\ (client.built /\ TokenAuth) =>
          /\ client.initialized
          /\ client.installations = 0
          /\ client.remote = client.ops
          /\ client.authErrors = 0
    /\ (client.built /\ AppAuth) =>
          /\ client.ops = 0 => (~client.initialized /\ client.installations = 0)
          /\ client.found <= 1
          /\ client.initialized <=> client.found = 1
          /\ client.remote = client.ops - (client.installations - client.found)
          /\ client.authErrors = 0
    /\ (client.built /\ ~TokenAuth /\ ~AppAuth) =>
          /\ ~client.initialized
          /\ client.remote = 0
          /\ client.installations = 0
          /\ client.authErrors = client.ops

\* app credentials: three operations, one discovery
C24_Witness ==
    /\ AppAuth
    /\ client.ops = MaxOps
    /\ client.installations = 1
    /\ client.remote = MaxOps

----------------------------------------------------------------------------
\* C25: removeLabel is idempotent. When the issue no longer carries the label
\* (the remote answers 404) the call can return normally, and when it does the
\* labels are unchanged and the transition goes on to add the new label; a
\* removeLabel that fails is rethrown to the handler, which returns a failure
\* and touches nothing. isTeamMember answers false on 404, the membership's
\* being active on 200, and rethrows every other error.
RemovingAbsentLabel ==
    AtCall("removeLabel") /\ ~Includes(labels, Head(op.todo).arg)

RemoveLabelReturns == calls' = Append(calls, Logged(Head(op.todo), TRUE))

RemoveLabelThrows == calls' = Append(calls, Logged(Head(op.todo), FALSE))

C25_RemoveLabelIdempotent ==
    /\ [](RemovingAbsentLabel => ENABLED (RemoveLabel /\ RemoveLabelReturns))
    /\ [][RemovingAbsentLabel /\ RemoveLabelReturns =>
            /\ labels' = labels
            /\ pc' = "api"
            /\ Head(op'.todo).api = "addLabels"]_vars
    /\ [][AtCall("removeLabel") /\ RemoveLabelThrows =>
            /\ UNCHANGED remoteVars
            /\ pc' = ret
            /\ ~result'.success]_vars
    /\ [](rulesOut # <<>> =>
            LET response == rulesIn[1]
                answer == rulesOut[1]
            IN  /\ response.status = 404 => ~answer.threw /\ ~answer.value
                /\ response.status = 200 =>
                      ~answer.threw /\ (answer.value <=> response.state = "active")
                /\ response.status \notin {200, 404} => answer.threw)

\* a label taken off elsewhere just before the call: the call returned, the
\* new label was added, and the transition succeeded
C25_Witness ==
    /\ InCall("executeTransition")
    /\ Returned
    /\ runs = 1
    /\ events # <<>>
    /\ Len(calls) = 3
    /\ calls[1] = [api |-> "removeLabel", arg |-> item.state, ok |-> TRUE]
    /\ calls[2].api = "addLabels" /\ calls[2].ok
    /\ result.success
    /\ ~Includes(labels, item.state)
    /\ Includes(labels, calls[2].arg)

----------------------------------------------------------------------------
\* C26: checkMaintainerActivity(item, user) measures from the latest of the
\* user's timeline events and comments, from item.updatedAt when the user has
\* none, and sets shouldPing exactly when the whole days since then are at
\* least maintainerInactivityDays; the accountability loop pings an eligible
\* assignee exactly on that answer.
ActivityStamps(user) ==
    {events[i].at : i \in {j \in 1..Len(events) : events[j].author = user}}
    \cup {comments[i].at : i \in {j \in 1..Len(comments) : comments[j].author = user}}

LastActivity(user) ==
    IF ActivityStamps(user) = {} THEN item.updatedAt
    ELSE CHOOSE x \in ActivityStamps(user) : \A y \in ActivityStamps(user) : y <= x

WholeDaysInactive(user) == (now - LastActivity(user)) \div TicksPerDay

AccountabilityTurn ==
    pc = "accountability" /\ accountable(item) /\ idx <= Len(item.assignees)

C26_MaintainerActivity ==
    /\ [](AccountabilityTurn =>
            \A user \in Users :
                checkMaintainerActivity(item, events, comments, user, now)
                = [daysSinceActivity |-> WholeDaysInactive(user),
                   shouldPing |->
                       WholeDaysInactive(user) >= MAINTAINER_INACTIVITY_DAYS])
    /\ [][AccountabilityTurn /\ canSponsor(Loaded.sponsors, item.assignees[idx]) =>
            LET inactive == WholeDaysInactive(item.assignees[idx])
                                >= MAINTAINER_INACTIVITY_DAYS
            IN  /\ passLog' = Append(passLog, "pingMaintainer") => inactive
                /\ idx' = idx + 1 => ~inactive]_vars

\* alice has an old event and a newer comment on an issue that is itself
\* stale: the loop has passed her without a ping
C26_Witness ==
    /\ pc = "accountability"
    /\ accountable(item)
    /\ idx = 2
    /\ item.assignees[1] = "alice"
    /\ maintainerSet # <<>> /\ canSponsor(maintainerSet[1], "alice")
    /\ Cardinality(ActivityStamps("alice")) = 2
    /\ WholeDaysInactive("alice") < MAINTAINER_INACTIVITY_DAYS
    /\ daysBetween(item.updatedAt, now) >= MAINTAINER_INACTIVITY_DAYS
    /\ \A i \in 1..Len(passLog) : passLog[i] # "pingMaintainer"

\* bob has no activity of his own: the issue's updatedAt counts
C26_WitnessFallback ==
    /\ pc = "afterMaintainerPing"
    /\ item.assignees[idx] = "bob"
    /\ ActivityStamps("bob") = {}
    /\ ActivityStamps("alice") # {}

----------------------------------------------------------------------------
\* C27: the accountability pass runs only for open items in state draft or
\* in-review; it pings an assignee only if the assignee can sponsor and has
\* been inactive for the threshold, and at most once per assignee per pass.
MaintainerPingsTo(user) ==
    {i \in 1..Len(results) : /\ results[i].action.type = "ping-maintainer"
                              /\ results[i].action.targetUser = user}

PingMaintainerStarts == passLog' = Append(passLog, "pingMaintainer")

C27_AccountabilityPass ==
    /\ []((pc = "afterMaintainerPing" \/ \E u \in Users : MaintainerPingsTo(u) # {})
            => ~item.isClosed /\ item.state \in {"draft", "in-review"})
    /\ [](\A u \in Users :
            /\ Cardinality(MaintainerPingsTo(u)) <= 1
            /\ MaintainerPingsTo(u) # {} =>
                  /\ Includes(item.assignees, u)
                  /\ maintainerSet # <<>> /\ u \in maintainerSet[1])
    /\ [](\A i \in 1..Len(comments) :
            comments[i].kind = "ping-maintainer" =>
                maintainerSet # <<>> /\ comments[i].mention \in maintainerSet[1])
    /\ [][PingMaintainerStarts =>
            /\ AccountabilityTurn
            /\ item.assignees[idx] \in Loaded.sponsors
            /\ WholeDaysInactive(item.assignees[idx]) >= MAINTAINER_INACTIVITY_DAYS
            /\ result'.action.targetUser = item.assignees[idx]
               \/ op'.action.targetUser = item.assignees[idx]]_vars

\* two assignees, both inactive, only the second can sponsor: one ping, to her
C27_Witness ==
    /\ pastAccountability
    /\ accountable(item)
    /\ item.assignees = <<"bob", "alice">>
    /\ ~canSponsor(maintainerSet[1], "bob")
    /\ WholeDaysInactive("bob") >= MAINTAINER_INACTIVITY_DAYS
    /\ MaintainerPingsTo("alice") # {}
    /\ MaintainerPingsTo("bob") = {}
    /\ ~dryRun
    /\ \E i \in 1..Len(comments) :
          comments[i].kind = "ping-maintainer" /\ comments[i].mention = "alice"

----------------------------------------------------------------------------
\* C28: outside cooldown, analyze pings the sponsor of a draft inactive for
\* draftPingDays or more and the author of an accepted item inactive for
\* acceptedPingDays or more; an item in state in-review, final or dormant, or
\* with no state, gets shouldPing, shouldMarkDormant and shouldClose false at
\* every inactivity; analyze never returns the ping target maintainer.
PingOnly(an, target) ==
    /\ an.shouldPing /\ an.pingTarget = target
    /\ ~an.shouldMarkDormant /\ ~an.shouldClose

Inactivities == 0..(PROPOSAL_DORMANT_DAYS + 1)

C28_PingTargetByState ==
    /\ (InPass /\ Analyzed) => analysis.pingTarget # "maintainer"
    /\ (InPass /\ Analyzed /\ CommentsAsAnalyzed /\ ~InCooldown) =>
          LET d == analysis.daysSinceActivity
              elapsed == now - item.updatedAt
          IN  /\ Days(d) <= elapsed /\ elapsed < Days(d + 1)
              /\ item.state = "draft" =>
                    IF d >= DRAFT_PING_DAYS THEN PingOnly(analysis, "sponsor")
                    ELSE NoActionAtAll(analysis)
              /\ item.state = "accepted" =>
                    IF d >= ACCEPTED_PING_DAYS THEN PingOnly(analysis, "author")
                    ELSE NoActionAtAll(analysis)
              /\ item.state \in {"in-review", "final", "dormant", NoState} =>
                    /\ NoActionAtAll(analysis)
                    /\ \A days \in Inactivities :
                          NoActionAtAll(analyzeByState(item, days))
              /\ \A days \in Inactivities :
                    analyzeByState(item, days).pingTarget # "maintainer"

\* a final item untouched for 180 days, analyzed outside cooldown: no action
C28_Witness ==
    /\ InPass /\ Analyzed /\ CommentsAsAnalyzed /\ ~InCooldown
    /\ item.state = "final"
    /\ analysis.daysSinceActivity >= PROPOSAL_DORMANT_DAYS
    /\ NoActionAtAll(analysis)

\* a draft at exactly draftPingDays: the sponsor is to be pinged
C28_WitnessDraft ==
    /\ InPass /\ Analyzed /\ CommentsAsAnalyzed /\ ~InCooldown
    /\ item.state = "draft"
    /\ analysis.daysSinceActivity = DRAFT_PING_DAYS
    /\ PingOnly(analysis, "sponsor")

\* an accepted item one tick short of acceptedPingDays: no action
C28_WitnessAccepted ==
    /\ InPass /\ Analyzed /\ CommentsAsAnalyzed /\ ~InCooldown
    /\ item.state = "accepted"
    /\ analysis.daysSinceActivity = ACCEPTED_PING_DAYS - 1
    /\ NoActionAtAll(analysis)

----------------------------------------------------------------------------
\* C29: process() on a closed item returns empty results and an empty summary
\* and asks the repository client for nothing: no read of comments or events,
\* no label, comment or close call, no sponsor lookup, whatever the item's
\* state, assignees and inactivity.
C29_ClosedItemUntouched ==
    /\ []((runs > 0 /\ item.isClosed) =>
            /\ pc \in {"process", "idle"}
            /\ results = <<>>
            /\ summaryData = <<>>
            /\ calls = <<>>
            /\ floating = {}
            /\ analysis = NoAnalysis
            /\ passLog \in {<<>>, <<"skip-closed">>})
    /\ [][(pc = "process" /\ item.isClosed /\ pc' # pc) =>
            /\ pc' = "idle"
            /\ passLog' = <<"skip-closed">>
            /\ UNCHANGED <<remoteVars, maintainerSet, loadAttempted>>]_vars

\* a closed proposal with a sponsor assigned and the teams not yet read: the
\* pass is over, no transition was tried and the teams are still unread
C29_Witness ==
    /\ pc = "idle"
    /\ passLog = <<"skip-closed">>
    /\ item.isClosed
    /\ item.state = "proposal"
    /\ item.assignees = <<"alice", "bob">>
    /\ maintainerSet = <<>> /\ ~loadAttempted
    /\ results = <<>> /\ summaryData = <<>> /\ calls = <<>>

\* a closed draft past every threshold
C29_WitnessDraft ==
    /\ pc = "idle"
    /\ passLog = <<"skip-closed">>
    /\ item.state = "draft"
    /\ daysBetween(item.updatedAt, now) >= DRAFT_PING_DAYS
    /\ item.assignees # <<>>

----------------------------------------------------------------------------
\* C30: extractState(labels) returns the state label at the smallest index of
\* the list, so the first one met wins when several are present, and null
\* when the list holds no state label.
StateLabelsAt == {i \in 1..Len(labels) : labels[i] \in SEPStates}

C30_ExtractStateFirst ==
    rulesOut # <<>> =>
        IF StateLabelsAt = {}
        THEN rulesOut[1] = NoState
        ELSE \E i \in StateLabelsAt :
                /\ \A j \in StateLabelsAt : i <= j
                /\ rulesOut[1] = labels[i]

\* draft stands before proposal in the list and after it in STATE_LABELS
C30_Witness ==
    /\ rulesOut = <<"draft">>
    /\ labels = <<"SEP", "draft", "proposal">>

\* no state label at all
C30_WitnessNull ==
    /\ rulesOut = <<NoState>>
    /\ labels = <<"SEP", "bug">>

----------------------------------------------------------------------------
\* C31: in the transition graph dormant is the one state that every other
\* non-terminal state has an edge to; dormant's outgoing edges are exactly
\* proposal and draft, and no state but dormant has an edge to proposal.
Targets(S) == {STATE_TRANSITIONS[S][i] : i \in 1..Len(STATE_TRANSITIONS[S])}

NonTerminal == {S \in SEPStates : STATE_TRANSITIONS[S] # <<>>}

\* every non-terminal state other than T itself has an edge to T
TargetOfAll(T) == \A S \in NonTerminal \ {T} : T \in Targets(S)

C31_DormantHub ==
    /\ NonTerminal = SEPStates \ {"final"}
    /\ \A T \in SEPStates : TargetOfAll(T) <=> T = "dormant"
    /\ Targets("dormant") = {"proposal", "draft"}
    /\ Len(STATE_TRANSITIONS["dormant"]) = 2
    /\ \A S \in SEPStates : "proposal" \in Targets(S) <=> S = "dormant"
    /\ rulesOut # <<>> /\ rulesIn[1] \in SEPStates =>
          /\ rulesIn[2] = "proposal" => (rulesOut[1] <=> rulesIn[1] = "dormant")
          /\ rulesIn[2] = "dormant" =>
                (rulesOut[1] <=> rulesIn[1] \notin {"final", "dormant"})
          /\ rulesIn[1] = "dormant" =>
                (rulesOut[1] <=> rulesIn[2] \in {"proposal", "draft"})

\* the revival of a dormant SEP to proposal was validated and accepted
C31_Witness ==
    /\ rulesOut # <<>>
    /\ rulesIn = <<"dormant", "proposal">>
    /\ rulesOut[1]
    /\ rulesOut[2].valid

----------------------------------------------------------------------------
\* C32: the Discord hook sends nothing for an event that is not a summary,
\* when it is disabled, or for a summary whose four sections are all empty;
\* otherwise it sends exactly one POST, whose payload is the summary entry
\* followed by one entry for each section that has rows: 2 to 5 entries.
SectionTitles == <<"transitions", "pings", "needs-sponsor", "dormant">>

RowsOf(event, title) ==
    CASE title = "transitions"   -> event.transitions
      [] title = "pings"         -> event.pings
      [] title = "needs-sponsor" -> event.needsSponsor
      [] title = "dormant"       -> event.dormant

FilledSections(event) == {i \in 1..4 : RowsOf(event, SectionTitles[i]) # <<>>}

OnEventCalled == rulesOut # <<>> /\ rulesIn[1] \in {DiscordHook(u) : u \in WebhookUrls}

C32_OnePostOrNone ==
    OnEventCalled =>
        LET hook == rulesIn[1]
            event == rulesIn[2]
            posts == rulesOut[1].posts
        IN  IF \/ hook.webhookUrl \in {Unset, ""}
               \/ event.type # "summary"
               \/ FilledSections(event) = {}
            THEN posts = <<>> /\ rulesOut[1].stage = "resolved"
            ELSE /\ Len(posts) = 1
                 /\ Len(posts[1]) = 1 + Cardinality(FilledSections(event))
                 /\ Len(posts[1]) \in 2..5
                 /\ posts[1][1].title = "summary"
                 /\ \A i \in FilledSections(event) :
                       \E k \in 2..Len(posts[1]) :
                          /\ posts[1][k].title = SectionTitles[i]
                          /\ k = 1 + Cardinality({j \in FilledSections(event) : j <= i})

\* a summary with pings and dormant rows only: one POST of three entries
C32_Witness ==
    /\ OnEventCalled
    /\ rulesIn[2].type = "summary"
    /\ FilledSections(rulesIn[2]) = {2, 4}
    /\ Len(rulesOut[1].posts) = 1
    /\ Len(rulesOut[1].posts[1]) = 3
    /\ rulesOut[1].posts[1][3].title = "dormant"

\* an enabled hook and a summary of nothing: no POST
C32_WitnessEmpty ==
    /\ OnEventCalled
    /\ rulesIn[1].enabled
    /\ rulesIn[2].type = "summary"
    /\ FilledSections(rulesIn[2]) = {}
    /\ rulesOut[1].posts = <<>>

\* C33: DiscordHook.onEvent always resolves and never rejects: a response that
\* is not OK, a network error and the abort by the 10-second timer are each
\* logged as an error and swallowed.
FetchAnswered == OnEventCalled /\ Len(rulesIn) = 3

C33_OnEventNeverRejects ==
    /\ [](OnEventCalled => rulesOut[1].stage # "rejected")
    /\ [](FetchAnswered =>
            /\ rulesOut[1].stage = "resolved"
            /\ Len(rulesOut[1].posts) = 1
            /\ rulesIn[3] = "ok" <=> rulesOut[1].logged = <<>>
            /\ rulesIn[3] # "ok" => Len(rulesOut[1].logged) = 1
            /\ rulesIn[3] = "timeout" <=>
                  rulesOut[1].logged = <<"Discord notification timed out">>)
    /\ [][(rulesOut # <<>> /\ rulesOut[1].stage = "fetching" /\ rulesOut' # rulesOut)
            => rulesOut'[1].stage = "resolved"]_vars

\* the timer aborted the POST: onEvent logged it and resolved
C33_Witness ==
    /\ FetchAnswered
    /\ rulesIn[3] = "timeout"
    /\ rulesOut[1].stage = "resolved"
    /\ rulesOut[1].logged = <<"Discord notification timed out">>

----------------------------------------------------------------------------
\* C34: label exclusivity. An item that carries one state label carries, after
\* a successful executeTransition or dormant marking that was not a dry run,
\* one state label, the target; from at most one state label the bot never
\* makes two. With several state labels at the start only the first goes.
StateLabelCount(ls) == Cardinality({i \in 1..Len(ls) : ls[i] \in SEPStates})

Relabelled ==
    /\ Returned
    /\ ~dryRun
    /\ runs > 0
    /\ result.success
    /\ result.action.type \in {"transition", "mark-dormant"}

TargetOf(action) == IF action.type = "transition" THEN action.toState ELSE "dormant"

C34_LabelExclusivity ==
    /\ (runs > 0 /\ StateLabelCount(item.labels) <= 1) => StateLabelCount(labels) <= 1
    /\ (Relabelled /\ StateLabelCount(item.labels) = 1) =>
          /\ StateLabelCount(labels) = 1
          /\ extractState(labels) = TargetOf(result.action)
          /\ \A i \in 1..Len(labels) :
                labels[i] \in SEPStates => labels[i] = TargetOf(result.action)
    /\ (Relabelled /\ StateLabelCount(item.labels) > 1) =>
          labels = Append(SelectSeq(item.labels, LAMBDA l : l # item.state),
                          TargetOf(result.action))

\* the second of two successful transitions in a row: proposal to draft, then
\* draft to in-review
C34_Witness ==
    /\ Relabelled
    /\ runs = 2
    /\ item.labels = <<"SEP", "draft">>
    /\ labels = <<"SEP", "in-review">>

\* a proposal marked dormant
C34_WitnessDormant ==
    /\ Relabelled
    /\ result.action.type = "mark-dormant"
    /\ item.labels = <<"SEP", "proposal">>
    /\ labels = <<"SEP", "dormant">>

\* two state labels to begin with: the second stays
C34_WitnessTwoLabels ==
    /\ Relabelled
    /\ item.labels = <<"SEP", "proposal", "final">>
    /\ labels = <<"SEP", "final", "draft">>

----------------------------------------------------------------------------
\* C35: when executeTransition or dormant marking returns success=false the
\* item still carries a state label, its original one or the target: no
\* failure of a single call leaves it with the old state label removed and no
\* new one added.
RelabelFailed ==
    /\ Returned
    /\ runs > 0
    /\ ~result.success
    /\ result.action.type \in {"transition", "mark-dormant"}
    /\ item.state # NoState

C35_FailureKeepsStateLabel ==
    RelabelFailed =>
        extractState(labels) \in {item.state, TargetOf(result.action)}

----------------------------------------------------------------------------
\* C36: dormant marking of an item already in state dormant is rejected by the
\* re-validation as an invalid transition, with no label, comment or close
\* call; so on the path that reaches removeLabel the test that the current
\* state is not dormant is never false.
DormantMarking ==
    /\ InCall("executePing")
    /\ analysis.shouldMarkDormant

C36_DormantNotMarkedAgain ==
    /\ (DormantMarking /\ item.state = "dormant") =>
          /\ Returned
          /\ ~result.success
          /\ result.action.type = "mark-dormant"
          /\ result.error = InvalidTransition("dormant", "dormant",
                                              STATE_TRANSITIONS["dormant"])
          /\ calls = <<>>
          /\ labels = item.labels /\ closed = item.isClosed
    /\ (DormantMarking /\ (pc = "api" \/ calls # <<>>)) =>
          /\ item.state # "dormant"
          /\ item.state # NoState =>
                IF calls # <<>>
                THEN calls[1].api = "removeLabel" /\ calls[1].arg = item.state
                ELSE Head(op.todo) = Call("removeLabel", item.state, NoUser)

\* a dormant item, an analysis that says mark dormant, not a dry run
C36_Witness ==
    /\ DormantMarking
    /\ Returned
    /\ ~dryRun
    /\ item.state = "dormant"
    /\ ~result.success
    /\ calls = <<>>

----------------------------------------------------------------------------
\* C37: without clearCache, canSponsor(u) gives the same answer for a user on
\* every call, calls that start while the first load is still waiting for the
\* team lookups included: such a caller is never answered from another set
\* (the fallback list) than the set later callers see.
AnsweredCallers == {i \in 1..Len(rulesOut) : rulesOut[i].stage = "returned"}

C37_CanSponsorStable ==
    \A i, j \in AnsweredCallers :
        /\ rulesOut[i].sponsors = rulesOut[j].sponsors
        /\ rulesIn[i] = rulesIn[j] => rulesOut[i].answer = rulesOut[j].answer

----------------------------------------------------------------------------
\* C38: a dry run and a real run whose calls all succeed give the same summary
\* rows for the same snapshot and remote state: each row is the one that the
\* analysis which drove the action determines. A pings row names that
\* analysis's target and its user, and a dormant row's wasClosed flag says
\* whether the action closes the issue.
StalenessRows ==
    {j \in 1..Len(summaryData) :
        summaryData[j].kind # "transitions" /\ summaryData[j].target # "maintainer"}

C38_RowsFromDrivingAnalysis ==
    /\ [](\A j \in StalenessRows :
            /\ summaryData[j].days = analysis.daysSinceActivity
            /\ summaryData[j].kind = "dormant" =>
                  /\ analysis.shouldMarkDormant
                  /\ summaryData[j].flag = analysis.shouldClose
            /\ summaryData[j].kind = "pings" =>
                  /\ analysis.shouldPing
                  /\ summaryData[j].target = analysis.pingTarget)
    /\ [][\A f \in floating \ floating' :
            (f.pass = runs /\ summaryData' # summaryData) =>
                summaryData' = summaryData \o summaryRows(f, analysis, Loaded.sponsors)]_vars

----------------------------------------------------------------------------
\* C39: over any sequence of runs the bot changes labels and closes only as
\* part of proposal to draft (the automatic transition, for an assignee who
\* can sponsor) and of proposal to dormant, which is followed by the close; an
\* item seen in state draft, in-review, accepted, final or dormant, or without
\* a state label, has no label added or removed and is not closed by the bot.
LabelOrCloseChange == labels' # labels \/ closed' # closed

C39_OnlyProposalsAreRelabelled ==
    [][LabelOrCloseChange =>
        /\ item.state = "proposal"
        /\ ~item.isClosed
        /\ pc = "api"
        /\ op.action.type \in {"transition", "mark-dormant"}
        /\ op.action.type = "transition" =>
              /\ op.action.toState = "draft"
              /\ Includes(item.assignees, op.action.targetUser)
              /\ maintainerSet # <<>> /\ op.action.targetUser \in maintainerSet[1]
              /\ closed' = closed
              /\ \/ labels' = SelectSeq(labels, LAMBDA l : l # "proposal")
                 \/ labels' = Append(labels, "draft")
        /\ op.action.type = "mark-dormant" =>
              /\ analysis.shouldMarkDormant
              /\ analysis.daysSinceActivity >= PROPOSAL_DORMANT_DAYS
              /\ \/ labels' = SelectSeq(labels, LAMBDA l : l # "proposal")
                 \/ labels' = Append(labels, "dormant")
                 \/ /\ closed' /\ labels' = labels
                    /\ "dormant" \in Range(labels)
                    /\ extractState(labels) = "dormant"]_vars

\* the second run, over the draft that the first run made of a proposal: the
\* pass is over and the labels are as the first run left them
C39_Witness ==
    /\ runs = 2
    /\ pc = "idle"
    /\ passLog # <<>>
    /\ ~dryRun
    /\ item.state = "draft"
    /\ labels = <<"SEP", "draft">>
    /\ ~closed
    /\ \E i \in 1..Len(comments) : comments[i].kind = "transition"

\* a proposal marked dormant and then closed
C39_WitnessDormant ==
    /\ item.state = "proposal"
    /\ ~item.isClosed
    /\ closed
    /\ labels = <<"SEP", "dormant">>

====
